---- MODULE Spec2Model ----
(***************************************************************************)
(* Version resolution and comparison engine of the one-click-apps update   *)
(* checker (scripts/check_updates.js and the advanced checker).            *)
(*                                                                         *)
(* JavaScript strings are modelled as sequences of one-character strings,  *)
(* ordered by UTF-16 code unit as JavaScript orders them.  JavaScript      *)
(* values that may be a number, a string, NaN or undefined are modelled as *)
(* records [t, n, s] so that values of different types can be compared.    *)
(***************************************************************************)
EXTENDS Integers, Sequences, FiniteSets, TLC

VARIABLES
    pc,          \* which operation has been applied to the inputs
    imageRef,    \* argument of parseDockerImage
    parsed,      \* value returned by parseDockerImage
    v1, v2, v3,  \* version strings handed to the comparator / classifier
    cmp,         \* values returned by compareVersions, by argument pair
    updateType,  \* value returned by determineUpdateType(v1, v2)
    currentVersion, latestVersion,  \* arguments of detectUpdate
    verdict,     \* what detectUpdate returned, or that it threw
    template,    \* parsed YAML of an app definition and its file's base name
    appConfig,   \* value returned by extractAppConfig
    trace,       \* what extractAppConfig did with each service, in order
    checkIndex,  \* how many services of appConfig checkAllApps has checked
    lookups,     \* services handed to getDockerHubLatestVersion, in order
    results,     \* update entries pushed by checkAllApps
    now,         \* Date.now(), in milliseconds
    ticks,       \* how many times the clock has been advanced from outside
    cache,       \* the files of the cache directory, by cache key
    fsWritable,  \* whether the cache directory accepts a write
    requests,    \* outbound requests issued so far
    lookup,      \* the registry lookup in progress, or the last one
    finished,    \* registry lookups that have returned
    wire,        \* the requests on the wire: how many are out, and when the
                 \* last one was sent and when the last one settled
    scan,        \* checkAllApps in progress: its position in the file list,
                 \* its counters and, at the end, its report
    sourceCheck, \* what the two lookups of checkBothSources returned, and
                 \* the results object it built from them
    copies,      \* what each script's copy of one function returned
    options,     \* the command-line flags of a run
    appFiles,    \* the template files of the apps directory, by file name
    appFilesBefore, \* the template files as they were when the run began
    report,      \* report.updates of checkAllApps
    applied,     \* updatesToApply of applyUpdates
    fileWrites   \* names of the template files written, in order

parseVars == <<imageRef, parsed>>
compareVars == <<v1, v2, v3, cmp, updateType>>
detectVars == <<currentVersion, latestVersion, verdict>>
extractVars == <<template, appConfig, trace, checkIndex, lookups, results>>
lookupVars ==
    <<now, ticks, cache, fsWritable, requests, lookup, finished, wire>>
scanVars == <<scan>>
sourceVars == <<sourceCheck>>
copyVars == <<copies>>
runVars ==
    <<options, appFiles, appFilesBefore, report, applied, fileWrites>>

vars ==
    <<pc, parseVars, compareVars, detectVars, extractVars, lookupVars,
      runVars, scanVars, sourceVars, copyVars>>

\* The variables of the other operations, which an operation leaves alone.
exceptParse ==
    <<compareVars, detectVars, extractVars, lookupVars, runVars, scanVars,
      sourceVars, copyVars>>
exceptCompare ==
    <<parseVars, detectVars, extractVars, lookupVars, runVars, scanVars,
      sourceVars, copyVars>>
exceptDetect ==
    <<parseVars, compareVars, extractVars, lookupVars, runVars, scanVars,
      sourceVars, copyVars>>
exceptExtract ==
    <<parseVars, compareVars, detectVars, lookupVars, runVars, scanVars,
      sourceVars, copyVars>>
exceptLookup ==
    <<parseVars, compareVars, detectVars, extractVars, runVars, scanVars,
      sourceVars, copyVars>>
exceptRun ==
    <<parseVars, compareVars, detectVars, extractVars, lookupVars, scanVars,
      sourceVars, copyVars>>
exceptScan ==
    <<parseVars, compareVars, detectVars, runVars, sourceVars, copyVars>>
exceptSource ==
    <<parseVars, compareVars, extractVars, lookupVars, runVars, scanVars,
      copyVars>>
exceptCopy == <<extractVars, lookupVars, runVars, scanVars, sourceVars>>

(***************************************************************************)
(* Bounds of the model.                                                    *)
(***************************************************************************)
MaxRefLen == 7      \* longest image reference drawn character by character
MaxAffixLen == 1    \* longest text around a "$$cap_" marker
MaxTokens == 2      \* most tokens of a version string in the comparator runs
MaxOrderTokens == 2 \* most tokens of a version string in the ordering runs
MaxTypeTokens == 4  \* most tokens of a version string in the classifier runs
MaxDetectTokens == 2 \* most tokens of a version string in the detector runs
MaxImagePieces == 3 \* most pieces a raw image of a template is made of
MaxBindings == 2    \* most variables a template declares
MaxServices == 2    \* most services a template declares
MaxLookups == 3     \* most registry lookups of a run
MaxTicks == 2       \* most advances of the clock from outside
MaxTags == 1        \* most tags of a registry response
MaxPageTags == 3    \* most tags of a response in the tag-filter runs

(***************************************************************************)
(* JavaScript strings.                                                     *)
(***************************************************************************)
Digits == {"0", "1", "2", "3", "4", "5", "6", "7", "8", "9"}

\* UTF-16 code unit of each character the model uses.
CharCode(c) ==
    CASE c = "$" -> 36
      [] c = "+" -> 43
      [] c = "-" -> 45
      [] c = "." -> 46
      [] c = "/" -> 47
      [] c = "0" -> 48
      [] c = "1" -> 49
      [] c = "2" -> 50
      [] c = "3" -> 51
      [] c = "4" -> 52
      [] c = "5" -> 53
      [] c = "6" -> 54
      [] c = "7" -> 55
      [] c = "8" -> 56
      [] c = "9" -> 57
      [] c = ":" -> 58
      [] c = "_" -> 95
      [] c = "a" -> 97
      [] c = "b" -> 98
      [] c = "c" -> 99
      [] c = "p" -> 112
      [] c = "r" -> 114
      [] c = "v" -> 118

DigitVal(c) == CharCode(c) - 48

\* All strings over alphabet A of length at most n.
StringsUpTo(A, n) == UNION {[1..k -> A] : k \in 0..n}

\* s.slice(from) with a 1-based start.
Drop(s, from) == IF from > Len(s) THEN <<>> ELSE SubSeq(s, from, Len(s))

\* s.startsWith(sub, at) with a 1-based position.
StartsWithAt(s, sub, at) ==
    /\ at + Len(sub) - 1 <= Len(s)
    /\ \A i \in 1..Len(sub) : s[at + i - 1] = sub[i]

\* String.prototype.includes
Includes(s, sub) == \E at \in 1..(Len(s) + 1) : StartsWithAt(s, sub, at)

\* s1 < s2 in JavaScript: lexicographic by code unit, a proper prefix first.
RECURSIVE StrLess(_, _)
StrLess(s1, s2) ==
    IF s2 = <<>> THEN FALSE
    ELSE IF s1 = <<>> THEN TRUE
    ELSE IF CharCode(Head(s1)) < CharCode(Head(s2)) THEN TRUE
    ELSE IF CharCode(Head(s1)) > CharCode(Head(s2)) THEN FALSE
    ELSE StrLess(Tail(s1), Tail(s2))

\* String.prototype.split with a set of one-character separators: the
\* pieces between separators, empty pieces kept; "" splits to [""].
RECURSIVE SplitFrom(_, _, _, _)
SplitFrom(s, seps, i, piece) ==
    IF i > Len(s) THEN <<piece>>
    ELSE IF s[i] \in seps THEN <<piece>> \o SplitFrom(s, seps, i + 1, <<>>)
    ELSE SplitFrom(s, seps, i + 1, Append(piece, s[i]))

Split(s, seps) == SplitFrom(s, seps, 1, <<>>)

\* Array.prototype.join with a one-character separator.
RECURSIVE Join(_, _)
Join(pieces, sep) ==
    IF pieces = <<>> THEN <<>>
    ELSE IF Len(pieces) = 1 THEN pieces[1]
    ELSE pieces[1] \o <<sep>> \o Join(Tail(pieces), sep)

(***************************************************************************)
(* JavaScript values: number, NaN, string, undefined.                      *)
(***************************************************************************)
Num(n) == [t |-> "number", n |-> n, s |-> <<>>]
NaN == [t |-> "NaN", n |-> 0, s |-> <<>>]
Str(s) == [t |-> "string", n |-> 0, s |-> s]
Undefined == [t |-> "undefined", n |-> 0, s |-> <<>>]
Null == [t |-> "null", n |-> 0, s |-> <<>>]

\* typeof x === 'number' (NaN is a number too)
IsNumber(x) == x.t \in {"number", "NaN"}

\* ToBoolean(x) is false
Falsy(x) ==
    \/ x.t = "undefined"
    \/ x.t = "null"
    \/ x.t = "NaN"
    \/ x.t = "number" /\ x.n = 0
    \/ x.t = "string" /\ x.s = <<>>

\* x || y
Or(x, y) == IF Falsy(x) THEN y ELSE x

\* array[i] with a 0-based index: undefined past the end.
At(array, i) == IF i + 1 <= Len(array) THEN array[i + 1] ELSE Undefined

\* The decimal numeral of a natural number.
RECURSIVE NatToStr(_)
NatToStr(n) ==
    IF n < 10 THEN <<CHOOSE c \in Digits : DigitVal(c) = n>>
    ELSE Append(NatToStr(n \div 10), CHOOSE c \in Digits : DigitVal(c) = n % 10)

\* String(x)
ToStr(x) ==
    CASE x.t = "string" -> x.s
      [] x.t = "number" -> IF x.n < 0 THEN <<"-">> \o NatToStr(-x.n) ELSE NatToStr(x.n)
      [] x.t = "NaN" -> <<"N", "a", "N">>
      [] x.t = "undefined" -> <<"u", "n", "d", "e", "f", "i", "n", "e", "d">>

\* Value of the longest run of digits that s starts with at position i,
\* acc being the value of the digits before i.
RECURSIVE DigitsValue(_, _, _)
DigitsValue(s, i, acc) ==
    IF i <= Len(s) /\ s[i] \in Digits
    THEN DigitsValue(s, i + 1, 10 * acc + DigitVal(s[i]))
    ELSE acc

\* parseInt(s) without a radix: an optional sign, then the longest prefix of
\* decimal digits; NaN when there is no digit.  (No character of the model
\* is white space, and none spells the "0x" prefix.)
parseInt(s) ==
    LET signed == s # <<>> /\ Head(s) \in {"+", "-"}
        first == IF signed THEN 2 ELSE 1
        value == DigitsValue(s, first, 0)
    IN  IF first > Len(s) \/ s[first] \notin Digits THEN NaN
        ELSE IF signed /\ Head(s) = "-" THEN Num(-value)
        ELSE Num(value)

(***************************************************************************)
(* The variables of detectUpdate before it is called.                      *)
(***************************************************************************)
NoVerdict ==
    [outcome |-> "none", hasUpdate |-> FALSE, currentVersion |-> Undefined,
     latestVersion |-> Undefined, updateType |-> "undefined"]

IdleDetect ==
    /\ currentVersion = Undefined
    /\ latestVersion = Undefined
    /\ verdict = NoVerdict

(***************************************************************************)
(* The variables of extractAppConfig and checkAllApps before a run.        *)
(***************************************************************************)
NoTemplate ==
    [appBaseName |-> <<>>, hasServices |-> FALSE, variables |-> <<>>,
     services |-> <<>>]

NoAppConfig == [isNull |-> TRUE, services |-> <<>>, variables |-> <<>>]

IdleExtract ==
    /\ template = NoTemplate
    /\ appConfig = NoAppConfig
    /\ trace = <<>>
    /\ checkIndex = 0
    /\ lookups = <<>>
    /\ results = <<>>

(***************************************************************************)
(* The variables of the registry lookup when no lookup has been made.      *)
(***************************************************************************)
NoEntry == [present |-> FALSE, value |-> Null, mtimeMs |-> 0]

NoResponse == [kind |-> "none", results |-> <<>>]

NoLookup ==
    [namespace |-> <<>>, repository |-> <<>>, startedAt |-> 0,
     entryAtStart |-> NoEntry, requestsAtStart |-> 0, data |-> NoResponse,
     returned |-> Null]

\* No request has been sent.
NoWire == [open |-> 0, issuedAt |-> -1, settledAt |-> -1]

\* No report has been built.
NoReport ==
    [built |-> FALSE, totalFiles |-> 0, appsChecked |-> 0, appsSkipped |-> 0,
     totalUpdatesAvailable |-> 0, updates |-> <<>>,
     summary |-> [major |-> 0, minor |-> 0, patch |-> 0, other |-> 0],
     byApp |-> <<>>]

\* checkAllApps before its loop: const results = [], both counters 0.
NoScan ==
    [fileIndex |-> 0, processedCount |-> 0, skippedCount |-> 0,
     report |-> NoReport]

IdleLookup ==
    /\ now = 0
    /\ ticks = 0
    /\ cache = {}
    /\ fsWritable = TRUE
    /\ requests = 0
    /\ lookup = NoLookup
    /\ finished = 0
    /\ wire = NoWire

IdleScan == scan = NoScan

(***************************************************************************)
(* The variables of checkBothSources before it is called.                  *)
(***************************************************************************)
\* results.dockerHub or results.github while it is null.
NoSource == [present |-> FALSE, latestVersion |-> Undefined]

\* results.recommendation while it is null.
NoRecommendation ==
    [present |-> FALSE, source |-> "none", version |-> Undefined,
     warning |-> FALSE]

\* const results = { image, currentVersion, dockerHub: null, github: null,
\* recommendation: null }: updateAvailable and updateType are not set.
NoResults ==
    [dockerHub |-> NoSource, github |-> NoSource,
     recommendation |-> NoRecommendation, updateAvailable |-> "unset",
     updateType |-> "unset"]

NoSourceCheck ==
    [dockerHubInfo |-> [isNull |-> TRUE, latestStable |-> Null],
     githubInfo |-> [isNull |-> TRUE, version |-> Undefined],
     results |-> NoResults]

IdleSource == sourceCheck = NoSourceCheck

(***************************************************************************)
(* No function has been run in its copies.                                 *)
(***************************************************************************)
NoCopies == [fn |-> "none", script |-> 0, advanced |-> 0, github |-> 0]

IdleCopies == copies = NoCopies

(***************************************************************************)
(* The variables of a run of main before it starts.                        *)
(***************************************************************************)
NoOptions ==
    [help |-> FALSE, applyUpdates |-> FALSE, dryRun |-> FALSE,
     patchOnly |-> FALSE, minorAndPatch |-> FALSE]

IdleRun ==
    /\ options = NoOptions
    /\ appFiles = <<>>
    /\ appFilesBefore = <<>>
    /\ report = <<>>
    /\ applied = <<>>
    /\ fileWrites = <<>>

(***************************************************************************)
(* parseDockerImage                                                        *)
(***************************************************************************)
DefaultRegistry == <<"d", "o", "c", "k", "e", "r", ".", "i", "o">>
LibraryNamespace == <<"l", "i", "b", "r", "a", "r", "y">>
CapMarker == <<"$", "$", "c", "a", "p", "_">>

\* The null that parseDockerImage returns, in the shape of a reference.
NullRef ==
    [isNull |-> TRUE, full |-> <<>>, registry |-> <<>>, namespace |-> <<>>,
     repository |-> <<>>, fullName |-> <<>>, currentVersion |-> <<>>,
     isOfficial |-> FALSE]

\* The variables of parseDockerImage before it is called.
IdleParse == imageRef = <<>> /\ parsed = NullRef

\* A plausible slip: the tag-count test lets a reference with more than
\* one colon through, and the first two parts are read as name and tag.
hasOneTagLoose(parts) == Len(parts) >= 2

\* parts.length !== 2 is the rejection test: the reference goes on when
\* splitting on ':' gave exactly a name and a tag.
hasOneTag(parts) == Len(parts) = 2

\* A plausible slip: the custom-registry branch keeps only the third
\* segment as the repository.
imageNamePartsThird(imageName) ==
    LET imageParts == Split(imageName, {"/"})
    IN  IF Len(imageParts) = 1
        THEN [registry |-> DefaultRegistry, namespace |-> LibraryNamespace,
              repository |-> imageParts[1]]
        ELSE IF Len(imageParts) = 2
        THEN [registry |-> DefaultRegistry, namespace |-> imageParts[1],
              repository |-> imageParts[2]]
        ELSE [registry |-> imageParts[1], namespace |-> imageParts[2],
              repository |-> imageParts[3]]

\* The registry / namespace / repository split of the image name.
imageNameParts(imageName) ==
    LET imageParts == Split(imageName, {"/"})
    IN  IF Len(imageParts) = 1
        THEN [registry |-> DefaultRegistry, namespace |-> LibraryNamespace,
              repository |-> imageParts[1]]
        ELSE IF Len(imageParts) = 2
        THEN [registry |-> DefaultRegistry, namespace |-> imageParts[1],
              repository |-> imageParts[2]]
        ELSE [registry |-> imageParts[1], namespace |-> imageParts[2],
              repository |-> Join(Drop(imageParts, 3), "/")]

parseDockerImage(ref) ==
    IF ref = <<>> THEN NullRef
    ELSE IF Includes(ref, CapMarker) THEN NullRef
    ELSE LET parts == Split(ref, {":"})
         IN  IF ~hasOneTag(parts) THEN NullRef
             ELSE LET name == imageNameParts(parts[1])
                  IN  [isNull |-> FALSE, full |-> ref,
                       registry |-> name.registry,
                       namespace |-> name.namespace,
                       repository |-> name.repository,
                       fullName |-> name.namespace \o <<"/">> \o name.repository,
                       currentVersion |-> parts[2],
                       isOfficial |-> name.namespace = LibraryNamespace]

(***************************************************************************)
(* Image references handed to the parser: every string of at most          *)
(* MaxRefLen characters over RefAlphabet, and every string that wraps the  *)
(* "$$cap_" marker in at most MaxAffixLen such characters on each side.    *)
(***************************************************************************)
RefAlphabet == {"a", "/", ":", "$"}

RefInputs ==
    StringsUpTo(RefAlphabet, MaxRefLen)
    \cup {pre \o CapMarker \o post :
            pre \in StringsUpTo(RefAlphabet, MaxAffixLen),
            post \in StringsUpTo(RefAlphabet, MaxAffixLen)}

InitParse ==
    /\ pc = "start"
    /\ imageRef \in RefInputs
    /\ parsed = NullRef
    /\ v1 = <<>>
    /\ v2 = <<>>
    /\ v3 = <<>>
    /\ cmp = [c12 |-> 0, c21 |-> 0, c23 |-> 0, c13 |-> 0]
    /\ updateType = "none"
    /\ IdleDetect
    /\ IdleExtract
    /\ IdleLookup
    /\ IdleScan
    /\ IdleCopies
    /\ IdleSource
    /\ IdleRun

\* parseDockerImage applied to the reference.
ParseDockerImage ==
    /\ pc = "start"
    /\ parsed' = parseDockerImage(imageRef)
    /\ pc' = "parsed"
    /\ UNCHANGED <<imageRef, exceptParse>>

NextParse == ParseDockerImage

SpecParse == InitParse /\ [][NextParse]_vars

(***************************************************************************)
(* Claims about parseDockerImage, stated on the reference as written.      *)
(***************************************************************************)
\* Number of occurrences of character c in s.
CountChar(s, c) == Cardinality({i \in 1..Len(s) : s[i] = c})

\* Position of the k-th occurrence of character c in s.
IndexOfNth(s, c, k) ==
    CHOOSE i \in 1..Len(s) :
        s[i] = c /\ Cardinality({j \in 1..i : s[j] = c}) = k

\* The text before position i, and the text from position i to before j.
Before(s, i) == SubSeq(s, 1, i - 1)
Between(s, i, j) == SubSeq(s, i + 1, j - 1)

\* C1: a reference that does not contain exactly one ':' (none, or two and
\* more) is rejected: parseDockerImage returns null, with no tag guessed.
C1_RejectsUnlessOneColon ==
    (pc = "parsed" /\ CountChar(imageRef, ":") # 1) => parsed = NullRef

\* C1 witness: a registry with a port and a tag, two colons, was rejected.
C1_Witness ==
    /\ pc = "parsed"
    /\ imageRef = <<"a", ":", "a", "/", "a", ":", "a">>
    /\ parsed.isNull

\* C2: a reference that still contains the placeholder marker "$$" is
\* rejected, also when it has exactly one colon.
C2_RejectsPlaceholder ==
    (pc = "parsed" /\ Includes(imageRef, <<"$", "$">>)) => parsed.isNull

\* C3: for an accepted reference the name before the colon is split on '/':
\* one segment is the repository of docker.io/library; two segments are
\* namespace and repository on docker.io; with three or more the first is
\* the registry, the second the namespace and the rest, '/' included, the
\* repository; the tag is the text after the colon.
C3_SegmentsDecideParts ==
    (pc = "parsed" /\ ~parsed.isNull) =>
        LET colon == IndexOfNth(imageRef, ":", 1)
            name == Before(imageRef, colon)
            slashes == CountChar(name, "/")
        IN  /\ parsed.currentVersion = Drop(imageRef, colon + 1)
            /\ slashes = 0 =>
                 /\ parsed.registry = DefaultRegistry
                 /\ parsed.namespace = LibraryNamespace
                 /\ parsed.repository = name
            /\ slashes = 1 =>
                 /\ parsed.registry = DefaultRegistry
                 /\ parsed.namespace = Before(name, IndexOfNth(name, "/", 1))
                 /\ parsed.repository = Drop(name, IndexOfNth(name, "/", 1) + 1)
            /\ slashes >= 2 =>
                 /\ parsed.registry = Before(name, IndexOfNth(name, "/", 1))
                 /\ parsed.namespace =
                        Between(name, IndexOfNth(name, "/", 1), IndexOfNth(name, "/", 2))
                 /\ parsed.repository = Drop(name, IndexOfNth(name, "/", 2) + 1)

\* C3 witness: a reference with four segments was accepted, its repository
\* keeping the '/' between the last two.
C3_Witness ==
    /\ pc = "parsed"
    /\ ~parsed.isNull
    /\ imageRef = <<"/", "a", "/", "a", "/", "a", ":">>
    /\ parsed.namespace = <<"a">>
    /\ parsed.repository = <<"a", "/", "a">>

\* C4: parseDockerImage returns null or a reference whose registry,
\* namespace, repository and tag are all non-empty.
C4_FullyPopulated ==
    pc = "parsed" =>
        \/ parsed.isNull
        \/ /\ parsed.registry # <<>>
           /\ parsed.namespace # <<>>
           /\ parsed.repository # <<>>
           /\ parsed.currentVersion # <<>>

(***************************************************************************)
(* compareVersions                                                         *)
(***************************************************************************)
\* v.replace(/^v/, '')
stripV(v) == IF v # <<>> /\ Head(v) = "v" THEN Tail(v) ELSE v

\* v.split(/[.-]/).map(p => parseInt(p) || p)
versionParts(v) ==
    LET pieces == Split(v, {".", "-"})
    IN  [i \in 1..Len(pieces) |-> Or(parseInt(pieces[i]), Str(pieces[i]))]

\* A plausible slip: "||" for "&&" in the typeof test, so that a string
\* paired with a number is compared as a number (NaN: neither less nor more).
comparePartEither(p1, p2) ==
    IF IsNumber(p1) \/ IsNumber(p2)
    THEN IF IsNumber(p1) /\ IsNumber(p2) /\ p1.n > p2.n THEN 1
         ELSE IF IsNumber(p1) /\ IsNumber(p2) /\ p1.n < p2.n THEN -1
         ELSE 0
    ELSE IF StrLess(ToStr(p2), ToStr(p1)) THEN 1
         ELSE IF StrLess(ToStr(p1), ToStr(p2)) THEN -1
         ELSE 0

\* A plausible slip: ">=" for ">" in the numeric test.
comparePartGreaterEq(p1, p2) ==
    IF IsNumber(p1) /\ IsNumber(p2)
    THEN IF p1.n >= p2.n THEN 1
         ELSE IF p1.n < p2.n THEN -1
         ELSE 0
    ELSE IF StrLess(ToStr(p2), ToStr(p1)) THEN 1
         ELSE IF StrLess(ToStr(p1), ToStr(p2)) THEN -1
         ELSE 0

\* The body of the loop: 1 or -1 when position i decides, 0 to go on.
comparePart(p1, p2) ==
    IF IsNumber(p1) /\ IsNumber(p2)
    THEN IF p1.n > p2.n THEN 1
         ELSE IF p1.n < p2.n THEN -1
         ELSE 0
    ELSE LET str1 == ToStr(p1)
             str2 == ToStr(p2)
         IN  IF StrLess(str2, str1) THEN 1
             ELSE IF StrLess(str1, str2) THEN -1
             ELSE 0

\* A plausible slip: the loop stops at the shorter version.
loopLengthMin(parts1, parts2) ==
    IF Len(parts1) < Len(parts2) THEN Len(parts1) ELSE Len(parts2)

\* Math.max(parts1.length, parts2.length)
loopLength(parts1, parts2) ==
    IF Len(parts1) > Len(parts2) THEN Len(parts1) ELSE Len(parts2)

\* for (let i = 0; i < maxLen; i++) { ... } return 0
RECURSIVE compareFrom(_, _, _, _)
compareFrom(parts1, parts2, i, maxLen) ==
    IF i >= maxLen THEN 0
    ELSE LET p1 == Or(At(parts1, i), Num(0))
             p2 == Or(At(parts2, i), Num(0))
             c == comparePart(p1, p2)
         IN  IF c # 0 THEN c ELSE compareFrom(parts1, parts2, i + 1, maxLen)

compareVersions(a, b) ==
    IF a = b THEN 0
    ELSE LET parts1 == versionParts(stripV(a))
             parts2 == versionParts(stripV(b))
         IN  compareFrom(parts1, parts2, 0, loopLength(parts1, parts2))

(***************************************************************************)
(* determineUpdateType                                                     *)
(***************************************************************************)
\* v.replace(/^v/, '').split(/[.-]/).map(p => parseInt(p) || 0)
typeParts(v) ==
    LET pieces == Split(stripV(v), {".", "-"})
    IN  [i \in 1..Len(pieces) |-> Or(parseInt(pieces[i]), Num(0))]

\* x > y on numbers; undefined converts to NaN, which is greater than
\* nothing and less than nothing.
Greater(x, y) == x.t = "number" /\ y.t = "number" /\ x.n > y.n

determineUpdateType(current, latest) ==
    LET currentParts == typeParts(current)
        latestParts == typeParts(latest)
    IN  IF Greater(At(latestParts, 0), At(currentParts, 0)) THEN "major"
        ELSE IF Greater(At(latestParts, 1), At(currentParts, 1)) THEN "minor"
        ELSE IF Greater(At(latestParts, 2), At(currentParts, 2)) THEN "patch"
        ELSE "other"

(***************************************************************************)
(* Version strings handed to the comparator and the classifier: at most n  *)
(* tokens of a token set, joined by '.'.  A token may carry the leading    *)
(* 'v' or the '-' separator.                                               *)
(***************************************************************************)
RECURSIVE VersionsOf(_, _)
VersionsOf(tokens, n) ==
    IF n = 0 THEN {}
    ELSE tokens \cup
         {v \o <<".">> \o t : v \in VersionsOf(tokens, n - 1), t \in tokens}

CompareTokens ==
    {<<>>, <<"0">>, <<"0", "0">>, <<"2">>, <<"1", "0">>, <<"a">>,
     <<"2", "a">>, <<"v", "1", "-", "0">>}

OrderTokens == {<<"0", "0">>, <<"2">>, <<"1", "0">>, <<"a">>}

TypeTokens == {<<"1">>, <<"2">>, <<"a">>}

NoCmp == [c12 |-> 0, c21 |-> 0, c23 |-> 0, c13 |-> 0]

\* The variables of the comparator and the classifier before a call.
IdleCompare ==
    /\ v1 = <<>>
    /\ v2 = <<>>
    /\ v3 = <<>>
    /\ cmp = NoCmp
    /\ updateType = "none"

InitCompare ==
    /\ pc = "start"
    /\ imageRef = <<>>
    /\ parsed = NullRef
    /\ v1 \in VersionsOf(CompareTokens, MaxTokens)
    /\ v2 \in VersionsOf(CompareTokens, MaxTokens)
    /\ v3 = <<>>
    /\ cmp = NoCmp
    /\ updateType = "none"
    /\ IdleDetect
    /\ IdleExtract
    /\ IdleLookup
    /\ IdleScan
    /\ IdleCopies
    /\ IdleSource
    /\ IdleRun

\* compareVersions applied to the pair in both argument orders.
CompareVersions ==
    /\ pc = "start"
    /\ cmp' = [cmp EXCEPT !.c12 = compareVersions(v1, v2),
                          !.c21 = compareVersions(v2, v1)]
    /\ pc' = "compared"
    /\ UNCHANGED <<v1, v2, v3, updateType, exceptCompare>>

NextCompare == CompareVersions

SpecCompare == InitCompare /\ [][NextCompare]_vars

InitOrder ==
    /\ pc = "start"
    /\ imageRef = <<>>
    /\ parsed = NullRef
    /\ v1 \in VersionsOf(OrderTokens, MaxOrderTokens)
    /\ v2 \in VersionsOf(OrderTokens, MaxOrderTokens)
    /\ v3 \in VersionsOf(OrderTokens, MaxOrderTokens)
    /\ cmp = NoCmp
    /\ updateType = "none"
    /\ IdleDetect
    /\ IdleExtract
    /\ IdleLookup
    /\ IdleScan
    /\ IdleCopies
    /\ IdleSource
    /\ IdleRun

\* compareVersions applied along a chain of three versions.
CompareChain ==
    /\ pc = "start"
    /\ cmp' = [cmp EXCEPT !.c12 = compareVersions(v1, v2),
                          !.c23 = compareVersions(v2, v3),
                          !.c13 = compareVersions(v1, v3)]
    /\ pc' = "ordered"
    /\ UNCHANGED <<v1, v2, v3, updateType, exceptCompare>>

NextOrder == CompareChain

SpecOrder == InitOrder /\ [][NextOrder]_vars

InitClassify ==
    /\ pc = "start"
    /\ imageRef = <<>>
    /\ parsed = NullRef
    /\ v1 \in VersionsOf(TypeTokens, MaxTypeTokens)
    /\ v2 \in VersionsOf(TypeTokens, MaxTypeTokens)
    /\ v3 = <<>>
    /\ cmp = NoCmp
    /\ updateType = "none"
    /\ IdleDetect
    /\ IdleExtract
    /\ IdleLookup
    /\ IdleScan
    /\ IdleCopies
    /\ IdleSource
    /\ IdleRun

\* determineUpdateType applied to current v1 and candidate v2, beside the
\* comparator's verdict on the candidate against the current version.
DetermineUpdateType ==
    /\ pc = "start"
    /\ updateType' = determineUpdateType(v1, v2)
    /\ cmp' = [cmp EXCEPT !.c21 = compareVersions(v2, v1)]
    /\ pc' = "classified"
    /\ UNCHANGED <<v1, v2, v3, exceptCompare>>

NextClassify == DetermineUpdateType

SpecClassify == InitClassify /\ [][NextClassify]_vars

(***************************************************************************)
(* Claims about compareVersions and determineUpdateType, stated on the     *)
(* text of the tokens.                                                     *)
(***************************************************************************)
\* The tokens of a version as written, after one leading 'v'.
TokensOf(v) ==
    Split(IF v # <<>> /\ Head(v) = "v" THEN Tail(v) ELSE v, {".", "-"})

\* A token that consists only of digits, and its integer value.
AllDigits(tok) == tok # <<>> /\ \A i \in 1..Len(tok) : tok[i] \in Digits
IntValue(tok) == DigitsValue(tok, 1, 0)

\* A version whose tokens all consist only of digits.
AllNumeric(v) == \A i \in 1..Len(TokensOf(v)) : AllDigits(TokensOf(v)[i])

\* C5: compareVersions(a, b) = -compareVersions(b, a), and
\* compareVersions(x, x) = 0.
C5_Antisymmetric ==
    pc = "compared" =>
        /\ cmp.c12 = -cmp.c21
        /\ v1 = v2 => cmp.c12 = 0

\* C5 witness: a non-numeric token against a number, ordered one way and
\* the opposite way with the arguments exchanged.
C5_Witness ==
    /\ pc = "compared"
    /\ v1 = <<"2", ".", "a">>
    /\ v2 = <<"2", ".", "1", "0">>
    /\ cmp.c12 = 1
    /\ cmp.c21 = -1

\* C6: between versions whose tokens all consist only of digits, position
\* by position, the result is decided by the first position whose integer
\* values differ, and is 0 when no position differs in value ("0" and "00"
\* have the same value).
C6_DigitTokensByValue ==
    (/\ pc = "compared"
     /\ AllNumeric(v1)
     /\ AllNumeric(v2)
     /\ Len(TokensOf(v1)) = Len(TokensOf(v2))) =>
        LET t1 == TokensOf(v1)
            t2 == TokensOf(v2)
            differ == {i \in 1..Len(t1) : IntValue(t1[i]) # IntValue(t2[i])}
            first == CHOOSE i \in differ : \A j \in differ : i <= j
        IN  cmp.c12 = IF differ = {} THEN 0
                      ELSE IF IntValue(t1[first]) > IntValue(t2[first]) THEN 1
                      ELSE -1

\* C7: a token that is not purely numeric is compared as a string, never by
\* a numeric prefix: when the first position at which two versions differ in
\* text holds such a token on either side, the result is not 0.
C7_NonNumericAsString ==
    pc = "compared" =>
        LET t1 == TokensOf(v1)
            t2 == TokensOf(v2)
        IN  \A i \in 1..Len(t1) :
                (/\ i <= Len(t2)
                 /\ \A j \in 1..i : t1[j] # <<>> /\ t2[j] # <<>>
                 /\ \A j \in 1..(i - 1) : t1[j] = t2[j]
                 /\ t1[i] # t2[i]
                 /\ ~AllDigits(t1[i]) \/ ~AllDigits(t2[i])) => cmp.c12 # 0

\* C8: missing trailing tokens count as 0: for v made of numeric tokens,
\* compareVersions(v, v + ".0") = 0 and compareVersions(v, v + "." + n) = -1
\* for a positive integer n.
C8_MissingTokensAreZero ==
    (pc = "compared" /\ AllNumeric(v1)) =>
        /\ v2 = v1 \o <<".", "0">> => cmp.c12 = 0
        /\ \A n \in {<<"2">>, <<"1", "0">>} :
               v2 = v1 \o <<".">> \o n => cmp.c12 = -1

\* C8 witness: "10" compared with "10.2".
C8_Witness ==
    /\ pc = "compared"
    /\ v1 = <<"1", "0">>
    /\ v2 = <<"1", "0", ".", "2">>
    /\ cmp.c12 = -1

\* C9: compareVersions returns -1, 0 or 1 and is transitive, also when a
\* position holds a number on one side and a non-numeric token on the other.
C9_TotalAndTransitive ==
    pc = "ordered" =>
        /\ {cmp.c12, cmp.c23, cmp.c13} \subseteq {-1, 0, 1}
        /\ (cmp.c12 <= 0 /\ cmp.c23 <= 0) => cmp.c13 <= 0

\* C9 witness: a chain through numbers and a non-numeric token at one
\* position, 2 < 10 < a.
C9_Witness ==
    /\ pc = "ordered"
    /\ v1 = <<"2">>
    /\ v2 = <<"1", "0">>
    /\ v3 = <<"a">>
    /\ cmp.c12 = -1
    /\ cmp.c23 = -1
    /\ cmp.c13 = -1

\* The integer at 0-based position k of a version: 0 when the position is
\* missing or its token is not numeric.
PositionInt(v, k) ==
    IF k + 1 <= Len(TokensOf(v)) /\ AllDigits(TokensOf(v)[k + 1])
    THEN IntValue(TokensOf(v)[k + 1])
    ELSE 0

\* C10: determineUpdateType is 'major' if the candidate's position-0 integer
\* exceeds the current's, else 'minor' on position 1, else 'patch' on
\* position 2, else 'other'.
C10_FirstGreaterPosition ==
    pc = "classified" =>
        updateType =
            IF PositionInt(v2, 0) > PositionInt(v1, 0) THEN "major"
            ELSE IF PositionInt(v2, 1) > PositionInt(v1, 1) THEN "minor"
            ELSE IF PositionInt(v2, 2) > PositionInt(v1, 2) THEN "patch"
            ELSE "other"

\* A version written out to three positions: ".0" appended while it has
\* fewer than three tokens.
RECURSIVE PadZeros(_)
PadZeros(v) ==
    IF Len(TokensOf(v)) >= 3 THEN v ELSE PadZeros(v \o <<".", "0">>)

\* C11: a current version with fewer than three tokens is classified as if
\* both versions were padded with zeros to three positions, so that
\* determineUpdateType("1", "1.2") is 'minor' and
\* determineUpdateType("1.2", "1.2.1") is 'patch'.
C11_ShortCurrentAsPadded ==
    (pc = "classified" /\ Len(TokensOf(v1)) < 3) =>
        /\ updateType = determineUpdateType(PadZeros(v1), PadZeros(v2))
        /\ (v1 = <<"1">> /\ v2 = <<"1", ".", "2">>) => updateType = "minor"
        /\ (v1 = <<"1", ".", "2">> /\ v2 = <<"1", ".", "2", ".", "1">>) =>
               updateType = "patch"

(***************************************************************************)
(* detectUpdate                                                            *)
(*                                                                         *)
(* The detector is called with whatever the lookup returned, so its        *)
(* arguments are JavaScript values: strings, null, undefined, numbers.  A  *)
(* call that can throw returns a record [threw, error, value].             *)
(***************************************************************************)
IsString(x) == x.t = "string"

\* x === y
StrictEquals(x, y) == x.t # "NaN" /\ x = y

Returned(value) == [threw |-> FALSE, error |-> "none", value |-> value]
Threw(error) == [threw |-> TRUE, error |-> error, value |-> 0]

\* compareVersions(v1, v2) on any two values: identical values return 0
\* before anything is read; otherwise v1.replace and v2.replace are called,
\* which only a string has.
compareVersionsCall(x, y) ==
    IF StrictEquals(x, y) THEN Returned(0)
    ELSE IF ~IsString(x) \/ ~IsString(y) THEN Threw("TypeError")
    ELSE Returned(compareVersions(x.s, y.s))

\* determineUpdateType(current, latest) on any two values: current.replace
\* and latest.replace are called first.
determineUpdateTypeCall(current, latest) ==
    IF ~IsString(current) \/ ~IsString(latest) THEN Threw("TypeError")
    ELSE Returned(determineUpdateType(current.s, latest.s))

\* return null
NullVerdict ==
    [outcome |-> "null", hasUpdate |-> FALSE, currentVersion |-> Undefined,
     latestVersion |-> Undefined, updateType |-> "undefined"]

\* A plausible slip: the handler lets the error go on to the caller.
catchRethrow(error) ==
    [outcome |-> "throw", hasUpdate |-> FALSE, currentVersion |-> Undefined,
     latestVersion |-> Undefined, updateType |-> "undefined"]

\* catch (error) { return null; }
catchError(error) == NullVerdict

\* A plausible slip: an equal candidate counts as newer.
isNewerOrSame(comparison) == comparison >= 0

\* comparison > 0
isNewer(comparison) == comparison > 0

\* A plausible slip: the fall-through reports nothing, as the missing
\* candidate does.
noUpdateAbsent(current, latest) == NullVerdict

\* return { hasUpdate: false, currentVersion, latestVersion }: the object
\* has no updateType property.
noUpdateVerdict(current, latest) ==
    [outcome |-> "verdict", hasUpdate |-> FALSE, currentVersion |-> current,
     latestVersion |-> latest, updateType |-> "undefined"]

detectUpdate(current, latest) ==
    IF Falsy(latest) THEN NullVerdict
    ELSE LET comparison == compareVersionsCall(latest, current)
         IN  IF comparison.threw THEN catchError(comparison.error)
             ELSE IF isNewer(comparison.value)
             THEN LET type == determineUpdateTypeCall(current, latest)
                  IN  IF type.threw THEN catchError(type.error)
                      ELSE [outcome |-> "verdict", hasUpdate |-> TRUE,
                            currentVersion |-> current,
                            latestVersion |-> latest,
                            updateType |-> type.value]
             ELSE noUpdateVerdict(current, latest)

(***************************************************************************)
(* Values handed to the detector: version strings of at most               *)
(* MaxDetectTokens tokens, the empty string, null, undefined and numbers.  *)
(***************************************************************************)
DetectValues ==
    {Str(v) : v \in VersionsOf(TypeTokens, MaxDetectTokens)}
    \cup {Str(<<>>), Null, Undefined, Num(0), Num(1), Num(2)}

InitDetect ==
    /\ pc = "start"
    /\ IdleParse
    /\ IdleCompare
    /\ IdleExtract
    /\ IdleLookup
    /\ IdleScan
    /\ IdleCopies
    /\ IdleSource
    /\ IdleRun
    /\ currentVersion \in DetectValues
    /\ latestVersion \in DetectValues
    /\ verdict = NoVerdict

\* detectUpdate applied to the pair.
DetectUpdate ==
    /\ pc = "start"
    /\ verdict' = detectUpdate(currentVersion, latestVersion)
    /\ pc' = "detected"
    /\ UNCHANGED <<currentVersion, latestVersion, exceptDetect>>

NextDetect == DetectUpdate

SpecDetect == InitDetect /\ [][NextDetect]_vars

(***************************************************************************)
(* Claims about detectUpdate.                                              *)
(***************************************************************************)
\* A candidate the lookup did not deliver: null, undefined or the empty
\* string.
Absent(x) == x \in {Null, Undefined, Str(<<>>)}

\* A version string that is there.
Present(x) == x.t = "string" /\ x.s # <<>>

\* C12: detectUpdate returns null whenever the candidate is absent, and
\* detectUpdate(x, x) for a present x returns a verdict object with
\* hasUpdate = false, never null.
C12_AbsentIsNotNoUpdate ==
    pc = "detected" =>
        /\ Absent(latestVersion) => verdict.outcome = "null"
        /\ (Present(latestVersion) /\ currentVersion = latestVersion) =>
               (verdict.outcome = "verdict" /\ ~verdict.hasUpdate)

\* C12 witness: detectUpdate("1.2", "1.2") returned a verdict without an
\* update.
C12_Witness ==
    /\ pc = "detected"
    /\ currentVersion = Str(<<"1", ".", "2">>)
    /\ latestVersion = currentVersion
    /\ verdict.outcome = "verdict"
    /\ ~verdict.hasUpdate

\* C13: for present version strings the verdict has hasUpdate = true if
\* and only if compareVersions(candidate, current) > 0, and it carries an
\* updateType (major, minor, patch or other) if and only if hasUpdate is
\* true.
C13_HasUpdateIffNewer ==
    (pc = "detected" /\ Present(currentVersion) /\ Present(latestVersion)) =>
        /\ verdict.outcome = "verdict"
        /\ verdict.hasUpdate <=>
               compareVersions(latestVersion.s, currentVersion.s) > 0
        /\ verdict.hasUpdate <=>
               verdict.updateType \in {"major", "minor", "patch", "other"}
        /\ ~verdict.hasUpdate => verdict.updateType = "undefined"

\* C13 witness: detectUpdate("1.2", "2.1") found a major update.
C13_Witness ==
    /\ pc = "detected"
    /\ currentVersion = Str(<<"1", ".", "2">>)
    /\ latestVersion = Str(<<"2", ".", "1">>)
    /\ verdict.hasUpdate
    /\ verdict.updateType = "major"

\* C14: detectUpdate never throws: for every current value and every
\* candidate value it returns a verdict object or null.
C14_NeverThrows ==
    pc = "detected" => verdict.outcome \in {"verdict", "null"}

\* C14 witness: the comparator failed on a number as the current version,
\* and detectUpdate returned null.
C14_Witness ==
    /\ pc = "detected"
    /\ currentVersion = Num(1)
    /\ latestVersion = Str(<<"2">>)
    /\ compareVersionsCall(latestVersion, currentVersion).threw
    /\ verdict.outcome = "null"

(***************************************************************************)
(* String.prototype.replace with a string pattern                          *)
(***************************************************************************)
\* s.indexOf(sub) as a 1-based position; 0 when sub does not occur.
IndexOf(s, sub) ==
    IF Includes(s, sub)
    THEN CHOOSE at \in 1..(Len(s) + 1) :
             /\ StartsWithAt(s, sub, at)
             /\ \A before \in 1..(at - 1) : ~StartsWithAt(s, sub, before)
    ELSE 0

\* The replacement text with its '$' patterns expanded: "$$" is one '$',
\* "$&" the matched text, "$`" the text before the match, "$'" the text
\* after it; a string pattern has no groups, so any other '$' stands for
\* itself.
RECURSIVE GetSubstitution(_, _, _, _, _)
GetSubstitution(replacement, i, matched, before, after) ==
    IF i > Len(replacement) THEN <<>>
    ELSE IF replacement[i] = "$" /\ i < Len(replacement)
              /\ replacement[i + 1] \in {"$", "&", "`", "'"}
    THEN (CASE replacement[i + 1] = "$" -> <<"$">>
            [] replacement[i + 1] = "&" -> matched
            [] replacement[i + 1] = "`" -> before
            [] replacement[i + 1] = "'" -> after)
         \o GetSubstitution(replacement, i + 2, matched, before, after)
    ELSE <<replacement[i]>>
         \o GetSubstitution(replacement, i + 1, matched, before, after)

\* s.replace(pattern, replacement) with a string pattern: the first
\* occurrence only.
Replace(s, pattern, replacement) ==
    LET at == IndexOf(s, pattern)
        before == SubSeq(s, 1, at - 1)
        after == Drop(s, at + Len(pattern))
    IN  IF at = 0 THEN s
        ELSE before \o GetSubstitution(replacement, 1, pattern, before, after)
             \o after

(***************************************************************************)
(* extractAppConfig (advanced checker)                                     *)
(*                                                                         *)
(* A template is the parsed YAML: the variables of caproverOneClickApp in *)
(* file order as records [id, defaultValue], and the services in key order *)
(* as records [serviceName, image].  A missing id, default value or image  *)
(* is the empty string, which the code's truth tests treat alike.          *)
(***************************************************************************)
TemplateMarker == <<"$", "$">>
AppNameKey == <<"$", "$", "c", "a", "p", "_", "a", "p", "p", "n", "a", "m", "e">>

\* variables[id] = defaultValue on an object kept in insertion order: a
\* second assignment to an id keeps its place and takes the new value.
setVariable(variables, id, defaultValue) ==
    IF \E j \in 1..Len(variables) : variables[j].id = id
    THEN [j \in 1..Len(variables) |->
             IF variables[j].id = id
             THEN [id |-> id, defaultValue |-> defaultValue]
             ELSE variables[j]]
    ELSE Append(variables, [id |-> id, defaultValue |-> defaultValue])

\* Build variable map from defaults: only variables with an id and a
\* default value.
RECURSIVE buildVariables(_, _, _)
buildVariables(declared, i, variables) ==
    IF i > Len(declared) THEN variables
    ELSE IF declared[i].id # <<>> /\ declared[i].defaultValue # <<>>
    THEN buildVariables(declared, i + 1,
             setVariable(variables, declared[i].id, declared[i].defaultValue))
    ELSE buildVariables(declared, i + 1, variables)

\* A plausible slip: every service whose key starts with "$$cap_appname-"
\* counts as the main service.
isMainServicePrefix(serviceName, appBaseName) ==
    \/ serviceName = AppNameKey
    \/ StartsWithAt(serviceName, AppNameKey \o <<"-">>, 1)

\* serviceName === '$$cap_appname' ||
\* serviceName === `$$cap_appname-${appBaseName}`
isMainService(serviceName, appBaseName) ==
    \/ serviceName = AppNameKey
    \/ serviceName = AppNameKey \o <<"-">> \o appBaseName

\* for (const [varName, varValue] of Object.entries(variables))
\*     resolvedImage = resolvedImage.replace(varName, varValue);
RECURSIVE resolveFrom(_, _, _)
resolveFrom(resolvedImage, variables, i) ==
    IF i > Len(variables) THEN resolvedImage
    ELSE resolveFrom(Replace(resolvedImage, variables[i].id,
                             variables[i].defaultValue),
                     variables, i + 1)

\* A plausible slip: only the CapRover marker "$$cap_" counts as
\* unresolved, as in the parser.
stillUnresolvedCap(resolvedImage) == Includes(resolvedImage, CapMarker)

\* resolvedImage.includes('$$')
stillUnresolved(resolvedImage) == Includes(resolvedImage, TemplateMarker)

\* One iteration of the loop over the services: what became of the
\* service (kind), the image after substitution, and whether the parser
\* was called.
serviceOutcome(service, variables, appBaseName) ==
    LET imageRef_ == service.image
        hasVariables == Includes(imageRef_, TemplateMarker)
        resolvedImage == IF hasVariables
                         THEN resolveFrom(imageRef_, variables, 1)
                         ELSE imageRef_
        parsed_ == parseDockerImage(resolvedImage)
        outcome(kind, resolved, called, ref) ==
            [serviceName |-> service.serviceName, kind |-> kind,
             originalImage |-> imageRef_, resolvedImage |-> resolved,
             hasVariables |-> hasVariables, calledParser |-> called,
             parsed |-> ref]
    IN  IF imageRef_ = <<>> THEN outcome("noImage", <<>>, FALSE, NullRef)
        ELSE IF ~isMainService(service.serviceName, appBaseName)
        THEN outcome("notMain", <<>>, FALSE, NullRef)
        ELSE IF hasVariables /\ stillUnresolved(resolvedImage)
        THEN outcome("unresolved", resolvedImage, FALSE, NullRef)
        ELSE IF parsed_.isNull
        THEN outcome("unparsable", resolvedImage, TRUE, NullRef)
        ELSE outcome("pushed", resolvedImage, TRUE, parsed_)

\* The outcomes of all services of a template, in key order.
serviceOutcomes(t) ==
    LET variables == buildVariables(t.variables, 1, <<>>)
    IN  [i \in 1..Len(t.services) |->
            serviceOutcome(t.services[i], variables, t.appBaseName)]

\* services.push({ serviceName, originalImage, resolvedImage,
\*                 hasVariables, ...parsed })
pushedService(o) ==
    [serviceName |-> o.serviceName, originalImage |-> o.originalImage,
     resolvedImage |-> o.resolvedImage, hasVariables |-> o.hasVariables,
     full |-> o.parsed.full, registry |-> o.parsed.registry,
     namespace |-> o.parsed.namespace, repository |-> o.parsed.repository,
     fullName |-> o.parsed.fullName,
     currentVersion |-> o.parsed.currentVersion,
     isOfficial |-> o.parsed.isOfficial]

RECURSIVE pushedServices(_, _)
pushedServices(outcomes, i) ==
    IF i > Len(outcomes) THEN <<>>
    ELSE IF outcomes[i].kind = "pushed"
    THEN <<pushedService(outcomes[i])>> \o pushedServices(outcomes, i + 1)
    ELSE pushedServices(outcomes, i + 1)

extractAppConfig(t) ==
    IF ~t.hasServices THEN NoAppConfig
    ELSE [isNull |-> FALSE,
          services |-> pushedServices(serviceOutcomes(t), 1),
          variables |-> buildVariables(t.variables, 1, <<>>)]

(***************************************************************************)
(* checkAllApps (advanced checker): the loop over the services of one      *)
(* app.  What the registry lookup returns is an input of each iteration.   *)
(***************************************************************************)
\* null, a result without a stable tag, and results with one.
LookupOutcomes ==
    {[isNull |-> TRUE, latestStable |-> Null],
     [isNull |-> FALSE, latestStable |-> Null],
     [isNull |-> FALSE, latestStable |-> Str(<<"1">>)],
     [isNull |-> FALSE, latestStable |-> Str(<<"2">>)]}

\* results.push({ ... }) for a service with a newer stable tag.
updateEntry(service, latest) ==
    [serviceName |-> service.serviceName, image |-> service.fullName,
     imageReference |-> service.originalImage,
     hasVariables |-> service.hasVariables,
     currentVersion |-> service.currentVersion, latestVersion |-> latest,
     updateType |-> determineUpdateType(service.currentVersion, latest)]

(***************************************************************************)
(* Templates handed to extractAppConfig.  Raw images are made of at most   *)
(* MaxImagePieces pieces, so that a placeholder can occur twice, alone, or *)
(* with no binding; default values may be empty, plain, or contain the id  *)
(* of another variable, written with "$$" or with "$$$$".                  *)
(***************************************************************************)
BindingIds == {<<"$", "$", "v">>, <<"$", "$", "p">>}

DefaultValues == {<<>>, <<"1">>, <<"$", "$", "p">>, <<"$", "$", "$", "$", "p">>}

Bindings == [id : BindingIds, defaultValue : DefaultValues]

ImagePieces == {<<"a", ":">>, <<"$", "$", "v">>, <<"$", "$", "p">>}

RECURSIVE RawImages(_)
RawImages(n) ==
    IF n = 0 THEN {<<>>}
    ELSE RawImages(n - 1)
         \cup {raw \o piece : raw \in RawImages(n - 1), piece \in ImagePieces}

\* One main service, every raw image, every list of variables.
ResolveTemplates ==
    {[appBaseName |-> <<"a">>, hasServices |-> TRUE, variables |-> declared,
      services |-> <<[serviceName |-> AppNameKey, image |-> raw]>>] :
        declared \in StringsUpTo(Bindings, MaxBindings),
        raw \in RawImages(MaxImagePieces)}

BaseNames == {<<"a">>, <<"b">>}

ServiceNames ==
    {AppNameKey, AppNameKey \o <<"-", "a">>, AppNameKey \o <<"-", "b">>,
     <<"b">>}

ServiceImages == {<<>>, <<"a", ":", "1">>, <<"a", ":", "$", "$", "v">>, <<"a">>}

Services == [serviceName : ServiceNames, image : ServiceImages]

\* Services under distinct keys, as the keys of a YAML mapping are.
DistinctKeys(services) ==
    \A i, j \in 1..Len(services) :
        services[i].serviceName = services[j].serviceName => i = j

\* Every list of services under every base name, with and without the
\* variable that the placeholder image needs; and a file without services.
ServiceTemplates ==
    {[appBaseName |-> base, hasServices |-> TRUE, variables |-> declared,
      services |-> services] :
        base \in BaseNames,
        declared \in {<<>>, <<[id |-> <<"$", "$", "v">>,
                               defaultValue |-> <<"1">>]>>},
        services \in {ss \in StringsUpTo(Services, MaxServices) :
                        DistinctKeys(ss)}}
    \cup {[NoTemplate EXCEPT !.appBaseName = base] : base \in BaseNames}

InitExtract ==
    /\ pc = "start"
    /\ IdleParse
    /\ IdleCompare
    /\ IdleDetect
    /\ IdleLookup
    /\ IdleScan
    /\ IdleCopies
    /\ IdleSource
    /\ IdleRun
    /\ template \in ResolveTemplates \cup ServiceTemplates
    /\ appConfig = NoAppConfig
    /\ trace = <<>>
    /\ checkIndex = 0
    /\ lookups = <<>>
    /\ results = <<>>

\* const appConfig = extractAppConfig(filePath)
ExtractAppConfig ==
    /\ pc = "start"
    /\ appConfig' = extractAppConfig(template)
    /\ trace' = IF template.hasServices THEN serviceOutcomes(template)
                ELSE <<>>
    /\ pc' = "extracted"
    /\ UNCHANGED <<template, checkIndex, lookups, results, exceptExtract>>

\* if (!appConfig || appConfig.services.length === 0) { skippedCount++;
\* continue; }
SkipApp ==
    /\ pc = "extracted"
    /\ appConfig.isNull \/ Len(appConfig.services) = 0
    /\ pc' = "skipped"
    /\ UNCHANGED <<template, appConfig, trace, checkIndex, lookups, results,
                   exceptExtract>>

\* One iteration of the loop over appConfig.services: the lookup, then the
\* comparison of its stable tag with the service's version.
CheckService(dockerHubInfo) ==
    /\ pc = "extracted"
    /\ ~appConfig.isNull
    /\ checkIndex < Len(appConfig.services)
    /\ LET service == appConfig.services[checkIndex + 1]
           latest == dockerHubInfo.latestStable
       IN  /\ lookups' = Append(lookups,
                  [serviceName |-> service.serviceName,
                   namespace |-> service.namespace,
                   repository |-> service.repository])
           /\ results' =
                  IF /\ ~dockerHubInfo.isNull
                     /\ ~Falsy(latest)
                     /\ compareVersions(latest.s, service.currentVersion) > 0
                  THEN Append(results, updateEntry(service, latest.s))
                  ELSE results
    /\ checkIndex' = checkIndex + 1
    /\ UNCHANGED <<pc, template, appConfig, trace, exceptExtract>>

\* processedCount++ after the last service.
AppChecked ==
    /\ pc = "extracted"
    /\ ~appConfig.isNull
    /\ Len(appConfig.services) > 0
    /\ checkIndex = Len(appConfig.services)
    /\ pc' = "checked"
    /\ UNCHANGED <<template, appConfig, trace, checkIndex, lookups, results,
                   exceptExtract>>

NextExtract ==
    \/ ExtractAppConfig
    \/ SkipApp
    \/ \E dockerHubInfo \in LookupOutcomes : CheckService(dockerHubInfo)
    \/ AppChecked

SpecExtract == InitExtract /\ [][NextExtract]_vars

(***************************************************************************)
(* Claims about extractAppConfig.                                          *)
(***************************************************************************)
\* The services that went through substitution.
Resolved(o) == o.kind \in {"unresolved", "unparsable", "pushed"}

\* s with every occurrence of pattern, left to right, replaced by the
\* replacement as it is written.
RECURSIVE ReplaceEvery(_, _, _)
ReplaceEvery(s, pattern, replacement) ==
    LET at == IndexOf(s, pattern)
    IN  IF at = 0 THEN s
        ELSE SubSeq(s, 1, at - 1) \o replacement
             \o ReplaceEvery(Drop(s, at + Len(pattern)), pattern, replacement)

\* Every id of the mapping replaced everywhere, one id after the other in
\* the mapping's order.
RECURSIVE ReplaceEveryId(_, _, _)
ReplaceEveryId(image, variables, i) ==
    IF i > Len(variables) THEN image
    ELSE ReplaceEveryId(ReplaceEvery(image, variables[i].id,
                                     variables[i].defaultValue),
                        variables, i + 1)

\* C15: the resolved image of a raw image with the placeholder marker is
\* the raw image with every occurrence of every bound variable id replaced
\* by that variable's default value verbatim, a second occurrence of an id
\* included; hasVariables is true.
C15_EveryOccurrenceReplaced ==
    pc # "start" =>
        \A i \in 1..Len(trace) :
            (Resolved(trace[i])
             /\ Includes(trace[i].originalImage, TemplateMarker)) =>
                /\ trace[i].hasVariables
                /\ trace[i].resolvedImage =
                       ReplaceEveryId(trace[i].originalImage,
                                      appConfig.variables, 1)

\* C16: substitution is not recursive: when the raw image mentions the id
\* of binding A, and A's default value contains the id of a binding B
\* that comes later in the mapping, the resolved image contains A's
\* default value unchanged.  (A is taken first in the mapping, so that it
\* is the raw image itself in which A's id is replaced.)
C16_InsertedTextNotRescanned ==
    pc # "start" =>
        \A i \in 1..Len(trace) :
            (Resolved(trace[i]) /\ trace[i].hasVariables) =>
                \A a, b \in 1..Len(appConfig.variables) :
                    (/\ a = 1
                     /\ a < b
                     /\ Includes(trace[i].originalImage,
                                 appConfig.variables[a].id)
                     /\ Includes(appConfig.variables[a].defaultValue,
                                 appConfig.variables[b].id)) =>
                        Includes(trace[i].resolvedImage,
                                 appConfig.variables[a].defaultValue)

\* Sequences that have an entry for the service of that key.
Mentions(entries, serviceName) ==
    \E k \in 1..Len(entries) : entries[k].serviceName = serviceName

\* C17: a service whose image still contains "$$" after all substitutions
\* is not passed to the parser, is absent from the returned services, and
\* reaches neither a registry lookup nor an update entry.
C17_UnresolvedNeverParsed ==
    pc # "start" =>
        \A i \in 1..Len(trace) :
            (Resolved(trace[i])
             /\ Includes(trace[i].resolvedImage, TemplateMarker)) =>
                /\ ~trace[i].calledParser
                /\ ~Mentions(appConfig.services, trace[i].serviceName)
                /\ ~Mentions(lookups, trace[i].serviceName)
                /\ ~Mentions(results, trace[i].serviceName)

\* C17 witness: the image "a:$$v" of the main service, with no variable
\* declared, was left out and the app skipped.
C17_Witness ==
    /\ pc = "skipped"
    /\ template.variables = <<>>
    /\ Len(trace) = 1
    /\ trace[1].originalImage = <<"a", ":", "$", "$", "v">>
    /\ trace[1].resolvedImage = <<"a", ":", "$", "$", "v">>
    /\ trace[1].kind = "unresolved"
    /\ appConfig.services = <<>>

DOCKER_HUB_DELAY == 1000
CacheValidMs == 3600000

CacheKeyPrefix == <<"d", "o", "c", "k", "e", "r", "h", "u", "b", "_">>

\* `dockerhub_${namespace}_${repository}`
cacheKey(namespace, repository) ==
    CacheKeyPrefix \o namespace \o <<"_">> \o repository

\* fs.existsSync(cacheFile), fs.statSync(cacheFile), fs.readJsonSync
entryOf(files, key) ==
    IF \E f \in files : f.key = key
    THEN LET f == CHOOSE f \in files : f.key = key
         IN  [present |-> TRUE, value |-> f.value, mtimeMs |-> f.mtimeMs]
    ELSE NoEntry

\* fs.writeJsonSync(cacheFile, result): the file is created or replaced.
writeJson(files, key, value, time) ==
    {f \in files : f.key # key}
    \cup {[key |-> key, value |-> value, mtimeMs |-> time]}

\* A plausible slip: an entry of exactly one hour still counts as valid.
isValidInclusive(age) == age <= CacheValidMs

\* age < 3600000
isValid(age) == age < CacheValidMs

NonVersionTags ==
    {<<"l", "a", "t", "e", "s", "t">>,
     <<"e", "d", "g", "e">>,
     <<"d", "e", "v">>,
     <<"n", "i", "g", "h", "t", "l", "y">>,
     <<"c", "a", "n", "a", "r", "y">>,
     <<"a", "l", "p", "h", "a">>,
     <<"b", "e", "t", "a">>,
     <<"r", "c">>}

\* The filter on tag names: false for a tag that is left out.
isVersionTag(name) ==
    ~(name \in NonVersionTags \/ Includes(name, <<"s", "n", "a", "p", "s", "h", "o", "t">>))

RECURSIVE filterTags(_, _)
filterTags(names, i) ==
    IF i > Len(names) THEN <<>>
    ELSE IF isVersionTag(names[i])
    THEN <<names[i]>> \o filterTags(names, i + 1)
    ELSE filterTags(names, i + 1)

\* { versions: versions.slice(0, 10), latestStable: versions[0]?.name ||
\*   null, lastChecked: new Date().toISOString() }
lookupResult(names, time) ==
    LET versions == filterTags(names, 1)
    IN  [t |-> "object",
         versions |-> SubSeq(versions, 1,
                             IF Len(versions) < 10 THEN Len(versions) ELSE 10),
         latestStable |-> IF versions = <<>> \/ versions[1] = <<>> THEN Null
                          ELSE Str(versions[1]),
         lastChecked |-> time]

(***************************************************************************)
(* Images looked up, and what a request can come back with: a rejected     *)
(* promise (network error or HTTP error status), null (HTTP 404), a body   *)
(* that is not JSON, and a page of at most MaxTags tags.                   *)
(***************************************************************************)
LookupImages ==
    {<<LibraryNamespace, <<"a">>>>,
     <<<<"a", "_", "b">>, <<"c">>>>,
     <<<<"a">>, <<"b", "_", "c">>>>}

TagNames == {<<"1">>, <<"l", "a", "t", "e", "s", "t">>}

Responses ==
    {[kind |-> k, results |-> <<>>] : k \in {"rejected", "null", "text"}}
    \cup {[kind |-> "tags", results |-> names] :
            names \in StringsUpTo(TagNames, MaxTags)}

\* The clock moves on by a millisecond, or by just under an hour.
TickSteps == {1, CacheValidMs - 1}

InitLookup ==
    /\ pc = "idle"
    /\ IdleParse
    /\ IdleCompare
    /\ IdleDetect
    /\ IdleExtract
    /\ IdleLookup
    /\ IdleScan
    /\ IdleCopies
    /\ IdleSource
    /\ IdleRun

\* The call and its cache check: a valid entry is returned at once.
getDockerHubLatestVersion(namespace, repository) ==
    /\ LET entry == entryOf(cache, cacheKey(namespace, repository))
           started == [NoLookup EXCEPT !.namespace = namespace,
                                       !.repository = repository,
                                       !.startedAt = now,
                                       !.entryAtStart = entry,
                                       !.requestsAtStart = requests]
       IN  IF entry.present /\ isValid(now - entry.mtimeMs)
           THEN /\ lookup' = [started EXCEPT !.returned = entry.value]
                /\ pc' = "returned"
                /\ finished' = finished + 1
           ELSE /\ lookup' = started
                /\ pc' = "sleeping"
                /\ finished' = finished
    /\ UNCHANGED <<now, ticks, cache, fsWritable, requests, wire>>

\* const dockerHubInfo = await getDockerHubLatestVersion(namespace,
\* repository), called on its own.
StartLookup(namespace, repository) ==
    /\ pc \in {"idle", "returned"}
    /\ finished < MaxLookups
    /\ getDockerHubLatestVersion(namespace, repository)
    /\ UNCHANGED exceptLookup

\* A plausible slip: sleep(ms) is called without await, so that no time
\* passes before the next statement.
sleepNotAwaited(time, ms) == time

\* await sleep(ms): the time at which the timer resolves the promise.
sleep(time, ms) == time + ms

\* await sleep(DOCKER_HUB_DELAY), then makeRequest(url) sends the request.
SleepThenRequest ==
    /\ pc = "sleeping"
    /\ now' = sleep(now, DOCKER_HUB_DELAY)
    /\ requests' = requests + 1
    /\ wire' = [wire EXCEPT !.open = @ + 1,
                            !.issuedAt = sleep(now, DOCKER_HUB_DELAY)]
    /\ pc' = "requesting"
    /\ UNCHANGED <<ticks, cache, fsWritable, lookup, finished, exceptLookup>>

\* The try block once the request has settled: a rejected request and a
\* failed writeJsonSync throw; "if (!data || !data.results) return null"
\* answers a 404 and a body that is not JSON; otherwise the result is
\* returned.
lookupTry(data, writable, time) ==
    IF data.kind = "rejected" THEN Threw("Error")
    ELSE IF data.kind # "tags" THEN Returned(Null)
    ELSE IF ~writable THEN Threw("Error")
    ELSE Returned(lookupResult(data.results, time))

\* A plausible slip: the error is thrown on to the caller.
lookupCatchRethrow(outcome) == outcome

\* catch (error) { console.error(...); return null; }
lookupCatch(outcome) ==
    IF outcome.threw THEN Returned(Null) ELSE outcome

\* The request settles and the rest of the function runs: null without a
\* tag list or on an error, otherwise the result, written to the cache
\* first.
HandleResponse(data) ==
    /\ pc = "requesting"
    /\ LET key == cacheKey(lookup.namespace, lookup.repository)
           result == lookupResult(data.results, now)
           outcome == lookupCatch(lookupTry(data, fsWritable, now))
       IN  /\ lookup' = [lookup EXCEPT !.data = data,
                                       !.returned = outcome.value]
           /\ cache' = IF data.kind = "tags" /\ fsWritable
                       THEN writeJson(cache, key, result, now)
                       ELSE cache
           /\ pc' = IF outcome.threw THEN "threw" ELSE "returned"
    /\ wire' = [wire EXCEPT !.open = @ - 1, !.settledAt = now]
    /\ finished' = finished + 1
    /\ UNCHANGED <<now, ticks, fsWritable, requests, exceptLookup>>

\* Time passes, between lookups or while a request is out.
Tick(ms) ==
    /\ pc \in {"idle", "returned", "requesting"}
    /\ ticks < MaxTicks
    /\ now' = now + ms
    /\ ticks' = ticks + 1
    /\ UNCHANGED <<pc, cache, fsWritable, requests, lookup, finished, wire,
                   exceptLookup>>

NextLookup ==
    \/ \E image \in LookupImages : StartLookup(image[1], image[2])
    \/ SleepThenRequest
    \/ \E data \in Responses : HandleResponse(data)
    \/ \E ms \in TickSteps : Tick(ms)

SpecLookup == InitLookup /\ [][NextLookup]_vars

(***************************************************************************)
(* Claims about the registry lookup.                                       *)
(***************************************************************************)
\* One hour in milliseconds.
OneHourMs == 60 * 60 * 1000

\* The lookup that has just returned found an entry under its key that was
\* younger than one hour when the lookup began.
FoundYoungEntry ==
    /\ lookup.entryAtStart.present
    /\ lookup.startedAt - lookup.entryAtStart.mtimeMs < OneHourMs

imageLine(name, value) == [field |-> "image", name |-> name, value |-> value]
defaultLine(id, value) ==
    [field |-> "defaultValue", name |-> id, value |-> value]
otherLine(name, value) == [field |-> "other", name |-> name, value |-> value]

\* Lines of one field, in file order.
RECURSIVE linesOf(_, _, _)
linesOf(content, field, i) ==
    IF i > Len(content) THEN <<>>
    ELSE IF content[i].field = field
    THEN <<content[i]>> \o linesOf(content, field, i + 1)
    ELSE linesOf(content, field, i + 1)

\* yaml.parse(content) of a template that declares its main service under
\* "$$cap_appname".
yamlParse(content, appBaseName) ==
    LET images == linesOf(content, "image", 1)
        defaults == linesOf(content, "defaultValue", 1)
    IN  [appBaseName |-> appBaseName, hasServices |-> TRUE,
         variables |-> [i \in 1..Len(defaults) |->
                           [id |-> defaults[i].name,
                            defaultValue |-> defaults[i].value]],
         services |-> [i \in 1..Len(images) |->
                          [serviceName |-> AppNameKey,
                           image |-> images[i].name \o <<":">>
                                     \o images[i].value]]]

\* The entries that the scan of one file adds to results, given what the
\* registry lookup of its service returned.
RECURSIVE scanServices(_, _, _, _)
scanServices(file, services, dockerHubInfo, i) ==
    IF i > Len(services) THEN <<>>
    ELSE LET service == services[i]
             latest == dockerHubInfo.latestStable
             rest == scanServices(file, services, dockerHubInfo, i + 1)
         IN  IF /\ ~dockerHubInfo.isNull
                /\ ~Falsy(latest)
                /\ compareVersions(latest.s, service.currentVersion) > 0
             THEN <<[file |-> file] @@ updateEntry(service, latest.s)>>
                  \o rest
             ELSE rest

\* checkAllApps over the files in directory order: report.updates.
RECURSIVE scanFiles(_, _, _, _)
scanFiles(fileList, contents, answers, i) ==
    IF i > Len(fileList) THEN <<>>
    ELSE LET file == fileList[i]
             appConfig_ == extractAppConfig(
                               yamlParse(contents[file.name], file.base))
         IN  scanServices(file.name, appConfig_.services,
                          answers[file.name], 1)
             \o scanFiles(fileList, contents, answers, i + 1)

\* A plausible slip: --minor-and-patch is tested before --patch-only.
selectedTypesMinorFirst(opts) ==
    IF opts.minorAndPatch THEN {"minor", "patch"}
    ELSE IF opts.patchOnly THEN {"patch"}
    ELSE {"major", "minor", "patch", "other"}

\* let updateTypes = ['major', 'minor', 'patch', 'other'], narrowed by
\* --patch-only and --minor-and-patch.
selectedTypes(opts) ==
    IF opts.patchOnly THEN {"patch"}
    ELSE IF opts.minorAndPatch THEN {"minor", "patch"}
    ELSE {"major", "minor", "patch", "other"}

\* report.updates.filter(u => updateTypes.includes(u.updateType))
RECURSIVE filterUpdates(_, _, _)
filterUpdates(updates, updateTypes, i) ==
    IF i > Len(updates) THEN <<>>
    ELSE IF updates[i].updateType \in updateTypes
    THEN <<updates[i]>> \o filterUpdates(updates, updateTypes, i + 1)
    ELSE filterUpdates(updates, updateTypes, i + 1)

\* One match of a version pattern: the pattern ends with the old version
\* (dots escaped) and has no anchor after it, so the value is rewritten
\* when it begins with the old version, and what follows is kept.
replaceVersion(value, old, new) ==
    IF StartsWithAt(value, old, 1) THEN new \o Drop(value, Len(old) + 1)
    ELSE value

\* content.replace(oldDefaultPattern, ...) and, for an update without
\* template variables, content.replace(oldImagePattern, ...).
updatedContent(content, update) ==
    [i \in 1..Len(content) |->
        IF \/ content[i].field = "defaultValue"
           \/ content[i].field = "image" /\ ~update.hasVariables
        THEN [content[i] EXCEPT
                 !.value = replaceVersion(@, update.currentVersion,
                                          update.latestVersion)]
        ELSE content[i]]

\* A plausible slip: the file is written in a dry run too.
writesFilesAlways(dryRun) == TRUE

\* if (!dryRun)
writesFiles(dryRun) == ~dryRun

\* The loop of applyUpdates over updatesToApply: the files and the names
\* of the files written, after the updates from position i on.
RECURSIVE applyFrom(_, _, _, _, _)
applyFrom(updatesToApply, i, dryRun, contents, written) ==
    IF i > Len(updatesToApply) THEN [files |-> contents, written |-> written]
    ELSE LET update == updatesToApply[i]
         IN  IF writesFiles(dryRun)
             THEN applyFrom(updatesToApply, i + 1, dryRun,
                      [contents EXCEPT
                          ![update.file] = updatedContent(@, update)],
                      Append(written, update.file))
             ELSE applyFrom(updatesToApply, i + 1, dryRun, contents, written)

(***************************************************************************)
(* Runs of main: every combination of flags, over two template files of    *)
(* the apps directory, with every answer of the registry.                  *)
(***************************************************************************)
FileList ==
    <<[name |-> "a.yml", base |-> <<"a">>],
      [name |-> "b.yml", base |-> <<"b">>]>>

FileNames == {FileList[i].name : i \in 1..Len(FileList)}

OldVersion == <<"1", ".", "2", ".", "0">>

\* An image with its version written out; an image that takes its version
\* from a variable; an image beside a line that repeats the version and a
\* default value that only begins with it.
FileContents ==
    {<<imageLine(<<"a">>, OldVersion)>>,
     <<imageLine(<<"a">>, <<"$", "$", "v">>),
       defaultLine(<<"$", "$", "v">>, OldVersion)>>,
     <<imageLine(<<"a">>, OldVersion), otherLine(<<"c">>, OldVersion),
       defaultLine(<<"$", "$", "p">>, OldVersion \o <<"1">>)>>}

\* What the lookup of a file's service returns: nothing, or a stable tag
\* that is a patch, a minor, a major or another kind of update.
RunAnswers ==
    {[isNull |-> TRUE, latestStable |-> Null]}
    \cup {[isNull |-> FALSE, latestStable |-> Str(tag)] :
            tag \in {<<"1", ".", "2", ".", "1">>, <<"1", ".", "3", ".", "0">>, <<"2", ".", "0", ".", "0">>, <<"1", ".", "2", ".", "0", ".", "1">>}}

Flags ==
    [help : BOOLEAN, applyUpdates : BOOLEAN, dryRun : BOOLEAN,
     patchOnly : BOOLEAN, minorAndPatch : BOOLEAN]

InitRun ==
    /\ pc = "main"
    /\ IdleParse
    /\ IdleCompare
    /\ IdleDetect
    /\ IdleExtract
    /\ IdleLookup
    /\ IdleScan
    /\ IdleCopies
    /\ IdleSource
    /\ options \in Flags
    /\ appFiles \in [FileNames -> FileContents]
    /\ appFilesBefore = appFiles
    /\ report = <<>>
    /\ applied = <<>>
    /\ fileWrites = <<>>

\* --help prints the usage and returns.
Help ==
    /\ pc = "main"
    /\ options.help
    /\ pc' = "done"
    /\ UNCHANGED <<runVars, exceptRun>>

\* const report = await checkAllApps(options)
CheckAllApps(answers) ==
    /\ pc = "main"
    /\ ~options.help
    /\ report' = scanFiles(FileList, appFiles, answers, 1)
    /\ pc' = "scanned"
    /\ UNCHANGED <<options, appFiles, appFilesBefore, applied, fileWrites,
                   exceptRun>>

\* Neither --apply nor --dry-run: the apply stage is not entered.
NoApply ==
    /\ pc = "scanned"
    /\ ~(options.applyUpdates \/ options.dryRun)
    /\ pc' = "done"
    /\ UNCHANGED <<runVars, exceptRun>>

\* await applyUpdates(report, { updateTypes, dryRun: options.dryRun })
ApplyUpdates ==
    /\ pc = "scanned"
    /\ options.applyUpdates \/ options.dryRun
    /\ LET updatesToApply ==
               filterUpdates(report, selectedTypes(options), 1)
           after == applyFrom(updatesToApply, 1, options.dryRun, appFiles,
                              <<>>)
       IN  /\ applied' = updatesToApply
           /\ appFiles' = after.files
           /\ fileWrites' = after.written
    /\ pc' = "done"
    /\ UNCHANGED <<options, appFilesBefore, report, exceptRun>>

NextRun ==
    \/ Help
    \/ \E answers \in [FileNames -> RunAnswers] : CheckAllApps(answers)
    \/ NoApply
    \/ ApplyUpdates

SpecRun == InitRun /\ [][NextRun]_vars

(***************************************************************************)
(* Claims about runs of main.                                              *)
(***************************************************************************)
\* C20: in a run given --dry-run (with or without --apply), and in a run
\* given neither --apply nor --dry-run, no template file is written: every
\* template file has after the run the content it had before.
C20_DryRunWritesNothing ==
    (pc = "done" /\ (options.dryRun \/ ~options.applyUpdates)) =>
        /\ fileWrites = <<>>
        /\ appFiles = appFilesBefore

\* C20 witness: a run with --apply and --dry-run went over two updates in
\* its apply stage and left both files as they were.
C20_Witness ==
    /\ pc = "done"
    /\ options.applyUpdates
    /\ options.dryRun
    /\ Len(applied) = 2
    /\ fileWrites = <<>>
    /\ appFiles = appFilesBefore

\* The names of the files written, as a set.
WrittenFiles == {fileWrites[i] : i \in 1..Len(fileWrites)}

\* The update types that the flags of the run select.
SelectedSet ==
    IF options.patchOnly THEN {"patch"}
    ELSE IF options.minorAndPatch THEN {"minor", "patch"}
    ELSE {"major", "minor", "patch", "other"}

\* C21: a template is rewritten only for a report entry whose updateType
\* is in the selected set ({patch} with --patch-only, {minor, patch} with
\* --minor-and-patch alone, all four types with neither flag); an entry
\* classified major or minor causes no write in a --patch-only run.
C21_OnlySelectedTypesWritten ==
    pc = "done" =>
        /\ \A file \in WrittenFiles :
               \E i \in 1..Len(report) :
                   /\ report[i].file = file
                   /\ report[i].updateType \in SelectedSet
        /\ \A i \in 1..Len(applied) : applied[i].updateType \in SelectedSet
        /\ options.patchOnly =>
               \A i \in 1..Len(report) :
                   report[i].updateType \in {"major", "minor"} =>
                       report[i].file \notin WrittenFiles

\* C21 witness: a --apply --patch-only run whose report holds a major
\* update of a.yml and a patch update of b.yml wrote b.yml only.
C21_Witness ==
    /\ pc = "done"
    /\ options.applyUpdates
    /\ ~options.dryRun
    /\ options.patchOnly
    /\ Len(report) = 2
    /\ report[1].file = "a.yml"
    /\ report[1].updateType = "major"
    /\ report[2].updateType = "patch"
    /\ fileWrites = <<"b.yml">>

(***************************************************************************)
(* The handling of a page of tags: a first lookup whose request is out,    *)
(* answered by every page of at most MaxPageTags tags, in any order, with  *)
(* plain versions, a release candidate and the floating tag "latest".      *)
(***************************************************************************)
PageTagNames ==
    {<<"1">>, <<"2">>, <<"1", "0">>, <<"1", "-", "r", "c", "1">>, <<"l", "a", "t", "e", "s", "t">>}

TagPages ==
    {[kind |-> "tags", results |-> names] :
        names \in StringsUpTo(PageTagNames, MaxPageTags)}

InitTagPage ==
    /\ pc = "requesting"
    /\ IdleParse
    /\ IdleCompare
    /\ IdleDetect
    /\ IdleExtract
    /\ IdleRun
    /\ IdleScan
    /\ IdleCopies
    /\ IdleSource
    /\ now = DOCKER_HUB_DELAY
    /\ ticks = 0
    /\ cache = {}
    /\ fsWritable = TRUE
    /\ requests = 1
    /\ lookup = [NoLookup EXCEPT !.namespace = LibraryNamespace,
                                 !.repository = <<"a">>]
    /\ finished = 0
    /\ wire = [NoWire EXCEPT !.open = 1, !.issuedAt = DOCKER_HUB_DELAY]

NextTagPage == \E data \in TagPages : HandleResponse(data)

SpecTagPage == InitTagPage /\ [][NextTagPage]_vars

(***************************************************************************)
(* Claims about the tags of a response.                                    *)
(***************************************************************************)
\* The markers of tags that are not stable releases.
UnstableMarkers ==
    {<<"r", "c">>,
     <<"b", "e", "t", "a">>,
     <<"a", "l", "p", "h", "a">>,
     <<"n", "i", "g", "h", "t", "l", "y">>,
     <<"e", "d", "g", "e">>,
     <<"d", "e", "v">>,
     <<"c", "a", "n", "a", "r", "y">>,
     <<"s", "n", "a", "p", "s", "h", "o", "t">>,
     <<"l", "a", "t", "e", "s", "t">>}

CarriesMarker(name) == \E marker \in UnstableMarkers : Includes(name, marker)

\* C22: the latestStable that getDockerHubLatestVersion returns is never a
\* tag that carries a pre-release, nightly, edge or development marker,
\* such as "1-rc1".
C22_LatestStableIsStable ==
    (pc = "returned" /\ lookup.returned # Null) =>
        (lookup.returned.latestStable # Null =>
            ~CarriesMarker(lookup.returned.latestStable.s))

\* The tags of the response that pass the filter of the lookup.
PassingTags ==
    {lookup.data.results[i] : i \in
        {j \in 1..Len(lookup.data.results) :
            isVersionTag(lookup.data.results[j])}}

\* C26: latestStable is the greatest, under compareVersions, of the tags
\* of the response that pass the filter, and null exactly when no tag
\* passes it.
C26_LatestStableIsGreatest ==
    (pc = "returned" /\ lookup.returned # Null) =>
        /\ lookup.returned.latestStable = Null <=> PassingTags = {}
        /\ lookup.returned.latestStable # Null =>
            /\ lookup.returned.latestStable.s \in PassingTags
            /\ \A tag \in PassingTags :
                   compareVersions(lookup.returned.latestStable.s, tag) >= 0

(***************************************************************************)
(* checkAllApps (advanced checker) over the file list, each registry       *)
(* lookup made through getDockerHubLatestVersion.  A file is given by its  *)
(* parsed YAML.                                                            *)
(***************************************************************************)
\* results.filter(r => r.updateType === type).length
RECURSIVE countType(_, _, _)
countType(updates, type, i) ==
    IF i > Len(updates) THEN 0
    ELSE (IF updates[i].updateType = type THEN 1 ELSE 0)
         + countType(updates, type, i + 1)

\* A plausible slip: the array of a file is begun anew at every update.
pushByAppAnew(byApp, update) ==
    IF \E k \in 1..Len(byApp) : byApp[k].file = update.file
    THEN [k \in 1..Len(byApp) |->
             IF byApp[k].file = update.file
             THEN [byApp[k] EXCEPT !.updates = <<update>>]
             ELSE byApp[k]]
    ELSE Append(byApp, [file |-> update.file, updates |-> <<update>>])

\* if (!report.byApp[update.file]) report.byApp[update.file] = [];
\* report.byApp[update.file].push(update);  The object is the list of its
\* keys in insertion order, each with its array.
pushByApp(byApp, update) ==
    IF \E k \in 1..Len(byApp) : byApp[k].file = update.file
    THEN [k \in 1..Len(byApp) |->
             IF byApp[k].file = update.file
             THEN [byApp[k] EXCEPT !.updates = Append(@, update)]
             ELSE byApp[k]]
    ELSE Append(byApp, [file |-> update.file, updates |-> <<update>>])

\* for (const update of results) { ... }
RECURSIVE groupByApp(_, _, _)
groupByApp(updates, i, byApp) ==
    IF i > Len(updates) THEN byApp
    ELSE groupByApp(updates, i + 1, pushByApp(byApp, updates[i]))

\* const report = { timestamp, totalFiles, appsChecked, appsSkipped,
\*                  totalUpdatesAvailable, updates, summary, byApp }
buildReport(fileList, processedCount, skippedCount, updates) ==
    [built |-> TRUE, totalFiles |-> Len(fileList),
     appsChecked |-> processedCount, appsSkipped |-> skippedCount,
     totalUpdatesAvailable |-> Len(updates), updates |-> updates,
     summary |-> [major |-> countType(updates, "major", 1),
                  minor |-> countType(updates, "minor", 1),
                  patch |-> countType(updates, "patch", 1),
                  other |-> countType(updates, "other", 1)],
     byApp |-> groupByApp(updates, 1, <<>>)]

\* dockerHubInfo && dockerHubInfo.latestStable, and then
\* compareVersions(dockerHubInfo.latestStable, service.currentVersion) > 0
hasNewerStable(dockerHubInfo, service) ==
    /\ dockerHubInfo.t = "object"
    /\ ~Falsy(dockerHubInfo.latestStable)
    /\ compareVersions(dockerHubInfo.latestStable.s,
                       service.currentVersion) > 0

\* A file without services; a file whose only service is not the app's
\* own; a file with the app's service; and a file with two services, the
\* second of which is the own service of the app "a" only.
ScanTemplates ==
    LET service(name, image) == [serviceName |-> name, image |-> image]
        withServices(services) ==
            [NoTemplate EXCEPT !.hasServices = TRUE, !.services = services]
    IN  {NoTemplate,
         withServices(<<service(<<"b">>, <<"a", ":">> \o OldVersion)>>),
         withServices(<<service(AppNameKey, <<"a", ":">> \o OldVersion)>>),
         withServices(<<service(AppNameKey, <<"a", ":">> \o OldVersion),
                        service(AppNameKey \o <<"-", "a">>,
                                <<"c", ":">> \o OldVersion)>>)}

\* What a request of the scan comes back with: a rejected promise, null,
\* a body that is not JSON, or a page with one tag.
ScanTags ==
    {OldVersion, <<"1", ".", "2", ".", "1">>, <<"1", ".", "3", ".", "0">>,
     <<"2", ".", "0", ".", "0">>, <<"1", ".", "2", ".", "0", ".", "1">>,
     <<"l", "a", "t", "e", "s", "t">>}

ScanResponses ==
    {[kind |-> k, results |-> <<>>] : k \in {"rejected", "null", "text"}}
    \cup {[kind |-> "tags", results |-> <<name>>] : name \in ScanTags}

InitScan ==
    /\ pc = "scanning"
    /\ IdleParse
    /\ IdleCompare
    /\ IdleDetect
    /\ IdleExtract
    /\ IdleScan
    /\ IdleCopies
    /\ IdleSource
    /\ now = 0
    /\ ticks = 0
    /\ cache = {}
    /\ fsWritable \in BOOLEAN
    /\ requests = 0
    /\ lookup = NoLookup
    /\ finished = 0
    /\ wire = NoWire
    /\ options = NoOptions
    /\ appFiles \in [FileNames -> ScanTemplates]
    /\ appFilesBefore = appFiles
    /\ report = <<>>
    /\ applied = <<>>
    /\ fileWrites = <<>>

\* for (const file of fileList): extractAppConfig(filePath), and the file
\* is skipped when nothing of it is to be checked.
ScanFile ==
    /\ pc = "scanning"
    /\ scan.fileIndex < Len(FileList)
    /\ LET file == FileList[scan.fileIndex + 1]
           parsedYaml == [appFiles[file.name] EXCEPT !.appBaseName = file.base]
           config == extractAppConfig(parsedYaml)
       IN  /\ template' = parsedYaml
           /\ appConfig' = config
           /\ trace' = IF parsedYaml.hasServices
                       THEN serviceOutcomes(parsedYaml) ELSE <<>>
           /\ IF config.isNull \/ Len(config.services) = 0
              THEN /\ scan' = [scan EXCEPT !.skippedCount = @ + 1,
                                           !.fileIndex = @ + 1]
                   /\ pc' = "scanning"
              ELSE /\ scan' = scan
                   /\ pc' = "service"
    /\ checkIndex' = 0
    /\ UNCHANGED <<lookups, results, lookupVars, exceptScan>>

\* for (const service of appConfig.services): the call of
\* getDockerHubLatestVersion(service.namespace, service.repository).
ScanLookup ==
    /\ pc = "service"
    /\ LET service == appConfig.services[checkIndex + 1]
       IN  /\ lookups' = Append(lookups,
                  [serviceName |-> service.serviceName,
                   namespace |-> service.namespace,
                   repository |-> service.repository])
           /\ getDockerHubLatestVersion(service.namespace,
                                        service.repository)
    /\ UNCHANGED <<template, appConfig, trace, checkIndex, results, scan,
                   exceptScan>>

\* The await resumes with dockerHubInfo: the entry is pushed when the
\* stable tag is newer, and after the last service processedCount++.
ScanVerdict ==
    /\ pc = "returned"
    /\ LET file == FileList[scan.fileIndex + 1]
           service == appConfig.services[checkIndex + 1]
           dockerHubInfo == lookup.returned
       IN  results' =
               IF hasNewerStable(dockerHubInfo, service)
               THEN Append(results,
                           [file |-> file.name]
                           @@ updateEntry(service,
                                          dockerHubInfo.latestStable.s))
               ELSE results
    /\ checkIndex' = checkIndex + 1
    /\ IF checkIndex + 1 = Len(appConfig.services)
       THEN /\ scan' = [scan EXCEPT !.processedCount = @ + 1,
                                    !.fileIndex = @ + 1]
            /\ pc' = "scanning"
       ELSE /\ scan' = scan
            /\ pc' = "service"
    /\ UNCHANGED <<template, appConfig, trace, lookups, lookupVars,
                   exceptScan>>

\* After the loop the report is built, written and returned.
WriteReport ==
    /\ pc = "scanning"
    /\ scan.fileIndex = Len(FileList)
    /\ scan' = [scan EXCEPT !.report =
                   buildReport(FileList, scan.processedCount,
                               scan.skippedCount, results)]
    /\ pc' = "reported"
    /\ UNCHANGED <<extractVars, lookupVars, exceptScan>>

NextScan ==
    \/ ScanFile
    \/ ScanLookup
    \/ SleepThenRequest
    \/ \E data \in ScanResponses : HandleResponse(data)
    \/ ScanVerdict
    \/ WriteReport

SpecScan == InitScan /\ [][NextScan]_vars

(***************************************************************************)
(* Claims about the scan.                                                  *)
(***************************************************************************)
\* The request of the lookup in hand failed: it was rejected (network
\* error, HTTP error status), came back without a body (404) or with a
\* body that is not JSON, or its result could not be written to the cache.
FailedLookup ==
    \/ lookup.data.kind \in {"rejected", "null", "text"}
    \/ lookup.data.kind = "tags" /\ ~fsWritable

\* The services of every file that has something to check, in scan order.
RECURSIVE ServicesFrom(_)
ServicesFrom(i) ==
    IF i > Len(FileList) THEN <<>>
    ELSE LET file == FileList[i]
             config == extractAppConfig(
                           [appFiles[file.name] EXCEPT
                               !.appBaseName = file.base])
         IN  [k \in 1..Len(config.services) |->
                 [serviceName |-> config.services[k].serviceName,
                  namespace |-> config.services[k].namespace,
                  repository |-> config.services[k].repository]]
             \o ServicesFrom(i + 1)

\* s is the beginning of t.
IsPrefix(s, t) == Len(s) <= Len(t) /\ SubSeq(t, 1, Len(s)) = s

\* C23: a registry lookup never throws and a failed one returns null; the
\* scan records no verdict for its service; the scan goes through the
\* services of the files in order, and when the report is built every
\* service of every file has been looked up.
C23_FailedLookupIsContained ==
    /\ [](pc # "threw")
    /\ [](pc = "returned" /\ FailedLookup => lookup.returned = Null)
    /\ [][pc = "returned" /\ FailedLookup => results' = results]_vars
    /\ [](IsPrefix(lookups, ServicesFrom(1)))
    /\ [](pc = "reported" =>
            /\ scan.report.built
            /\ scan.report.updates = results
            /\ lookups = ServicesFrom(1))

\* C23 witness: of two requests of a finished scan the earlier one failed,
\* and the later one gave the report its only entry.
C23_Witness ==
    /\ pc = "reported"
    /\ scan.report.built
    /\ fsWritable
    /\ requests = 2
    /\ Cardinality(cache) = 1
    /\ lookup.data.kind = "tags"
    /\ Len(scan.report.updates) = 1
    /\ scan.report.updates[1].serviceName = lookups[Len(lookups)].serviceName

\* One second, the pause before a request.
RequestGapMs == 1000

\* The lookup that has just returned was answered from the cache.
AnsweredFromCache == lookup.data = NoResponse

\* C24: at most one request is out at a time; a request is sent one second
\* or more after the request before it settled; a lookup answered from the
\* cache takes no time and sends nothing; and the scan passes its verdict
\* on a service only when the lookup it began for that service has
\* returned.
C24_RequestsPacedOneAtATime ==
    /\ [](wire.open <= 1)
    /\ [](pc = "requesting" /\ wire.settledAt >= 0 =>
            wire.issuedAt >= wire.settledAt + RequestGapMs)
    /\ [](pc = "returned" /\ AnsweredFromCache =>
            now = lookup.startedAt /\ requests = lookup.requestsAtStart)
    /\ [][checkIndex' = checkIndex + 1 \/ results' # results =>
            pc = "returned" /\ wire.open = 0 /\ finished = Len(lookups)]_vars

\* C24 witness: a finished scan of three lookups, the last answered from
\* the cache, sent two requests and spent two pauses.
C24_Witness ==
    /\ pc = "reported"
    /\ finished = 3
    /\ requests = 2
    /\ AnsweredFromCache
    /\ wire.settledAt = 2 * RequestGapMs
    /\ now = 2 * RequestGapMs

UpdateTypes == {"major", "minor", "patch", "other"}

\* The entries of updates that belong to one file, in order.
RECURSIVE UpdatesOfFile(_, _, _)
UpdatesOfFile(updates, file, i) ==
    IF i > Len(updates) THEN <<>>
    ELSE IF updates[i].file = file
    THEN <<updates[i]>> \o UpdatesOfFile(updates, file, i + 1)
    ELSE UpdatesOfFile(updates, file, i + 1)

\* C30: in the report of checkAllApps the checked and the skipped apps add
\* up to the files; totalUpdatesAvailable is the length of updates; every
\* entry has one of the four update types and the four counts of the
\* summary add up to the total; and byApp has one group for each file with
\* an update, holding exactly the updates of that file.
C30_ReportIsConsistent ==
    pc = "reported" =>
        LET r == scan.report
        IN  /\ r.appsChecked + r.appsSkipped = r.totalFiles
            /\ r.totalFiles = Len(FileList)
            /\ r.totalUpdatesAvailable = Len(r.updates)
            /\ \A i \in 1..Len(r.updates) :
                   r.updates[i].updateType \in UpdateTypes
            /\ r.summary.major + r.summary.minor + r.summary.patch
               + r.summary.other = r.totalUpdatesAvailable
            /\ \A j, k \in 1..Len(r.byApp) :
                   r.byApp[j].file = r.byApp[k].file => j = k
            /\ \A k \in 1..Len(r.byApp) :
                   /\ r.byApp[k].updates # <<>>
                   /\ r.byApp[k].updates =
                          UpdatesOfFile(r.updates, r.byApp[k].file, 1)
            /\ \A i \in 1..Len(r.updates) :
                   \E k \in 1..Len(r.byApp) :
                       r.byApp[k].file = r.updates[i].file

\* C30 witness: a report over one skipped file and one checked file with
\* two updates of different types.
C30_Witness ==
    /\ pc = "reported"
    /\ scan.report.appsChecked = 1
    /\ scan.report.appsSkipped = 1
    /\ scan.report.totalUpdatesAvailable = 2
    /\ scan.report.summary.major = 1
    /\ scan.report.summary.other = 1
    /\ Len(scan.report.byApp) = 1
    /\ Len(scan.report.byApp[1].updates) = 2

(***************************************************************************)
(* Claims about the text that applyUpdates writes.                         *)
(***************************************************************************)
\* C25: after the updates have been applied, in the file of each applied
\* update every image line and every defaultValue line whose version is
\* the old version carries the new version, and every other line of the
\* file is as it was, a version that only begins with the old one
\* included.
C25_OnlyOldVersionReplaced ==
    pc = "done" /\ ~options.dryRun =>
        \A k \in 1..Len(applied) :
            LET update == applied[k]
                before == appFilesBefore[update.file]
                after == appFiles[update.file]
            IN  /\ Len(after) = Len(before)
                /\ \A i \in 1..Len(before) :
                       IF /\ before[i].field \in {"image", "defaultValue"}
                          /\ before[i].value = update.currentVersion
                       THEN after[i] = [before[i] EXCEPT
                                           !.value = update.latestVersion]
                       ELSE after[i] = before[i]

(***************************************************************************)
(* checkBothSources (enhanced checker), from what its two lookups          *)
(* returned.                                                               *)
(***************************************************************************)
MaxSourceTokens == 2 \* most tokens of a version reported by a source

\* if (dockerHubInfo && dockerHubInfo.latestStable) results.dockerHub = ...
dockerHubSource(dockerHubInfo) ==
    IF dockerHubInfo.isNull \/ Falsy(dockerHubInfo.latestStable) THEN NoSource
    ELSE [present |-> TRUE, latestVersion |-> dockerHubInfo.latestStable]

\* if (githubInfo) results.github = { latestVersion: githubInfo.version }
githubSource(githubInfo) ==
    IF githubInfo.isNull THEN NoSource
    ELSE [present |-> TRUE, latestVersion |-> githubInfo.version]

\* A plausible slip: Docker Hub is recommended whenever it reports.
recommendDockerHub(dockerHub, github) ==
    IF dockerHub.present
    THEN [present |-> TRUE, source |-> "dockerhub",
          version |-> dockerHub.latestVersion, warning |-> FALSE]
    ELSE IF github.present
    THEN [present |-> TRUE, source |-> "github",
          version |-> github.latestVersion, warning |-> TRUE]
    ELSE NoRecommendation

\* "Determine recommendation": results.recommendation.
recommend(dockerHub, github) ==
    IF dockerHub.present /\ github.present
    THEN LET dockerVersion == dockerHub.latestVersion
             githubVersion == github.latestVersion
             comparison == compareVersions(dockerVersion.s, githubVersion.s)
         IN  IF comparison = 0
             THEN [present |-> TRUE, source |-> "both",
                   version |-> dockerVersion, warning |-> FALSE]
             ELSE IF comparison > 0
             THEN [present |-> TRUE, source |-> "dockerhub",
                   version |-> dockerVersion, warning |-> FALSE]
             ELSE [present |-> TRUE, source |-> "github",
                   version |-> githubVersion, warning |-> TRUE]
    ELSE IF dockerHub.present
    THEN [present |-> TRUE, source |-> "dockerhub",
          version |-> dockerHub.latestVersion, warning |-> FALSE]
    ELSE IF github.present
    THEN [present |-> TRUE, source |-> "github",
          version |-> github.latestVersion, warning |-> TRUE]
    ELSE NoRecommendation

\* The results object that checkBothSources returns, given what the two
\* lookups returned and what detectUpdate returned for the recommendation.
bothSourcesResults(dockerHubInfo, githubInfo, updateInfo) ==
    LET dockerHub == dockerHubSource(dockerHubInfo)
        github == githubSource(githubInfo)
        recommendation == recommend(dockerHub, github)
        assigned == recommendation.present /\ updateInfo.outcome = "verdict"
    IN  [dockerHub |-> dockerHub, github |-> github,
         recommendation |-> recommendation,
         updateAvailable |-> IF ~assigned THEN "unset"
                             ELSE IF updateInfo.hasUpdate THEN "true"
                             ELSE "false",
         updateType |-> IF ~assigned THEN "unset" ELSE updateInfo.updateType]

SourceTokens == {<<"2">>, <<"1", "0">>, <<"a">>}

SourceVersions == VersionsOf(SourceTokens, MaxSourceTokens)

\* null, a result without a stable tag, and a result with one.
DockerHubInfos ==
    {[isNull |-> TRUE, latestStable |-> Null],
     [isNull |-> FALSE, latestStable |-> Null]}
    \cup {[isNull |-> FALSE, latestStable |-> Str(v)] : v \in SourceVersions}

\* null, and a release whose tag, without its "v", is a version or empty.
GitHubInfos ==
    {[isNull |-> TRUE, version |-> Undefined]}
    \cup {[isNull |-> FALSE, version |-> Str(v)] :
            v \in SourceVersions \cup {<<>>}}

InitSource ==
    /\ pc = "start"
    /\ IdleParse
    /\ IdleCompare
    /\ IdleExtract
    /\ IdleLookup
    /\ IdleScan
    /\ IdleCopies
    /\ IdleRun
    /\ currentVersion \in {Str(v) : v \in SourceVersions}
    /\ latestVersion = Undefined
    /\ verdict = NoVerdict
    /\ sourceCheck \in
           [dockerHubInfo : DockerHubInfos, githubInfo : GitHubInfos,
            results : {NoResults}]

\* checkBothSources(image) once both lookups have returned.
CheckBothSources ==
    /\ pc = "start"
    /\ LET recommendation ==
               recommend(dockerHubSource(sourceCheck.dockerHubInfo),
                         githubSource(sourceCheck.githubInfo))
           updateInfo ==
               IF recommendation.present
               THEN detectUpdate(currentVersion, recommendation.version)
               ELSE NoVerdict
       IN  /\ latestVersion' = recommendation.version
           /\ verdict' = updateInfo
           /\ sourceCheck' =
                  [sourceCheck EXCEPT !.results =
                      bothSourcesResults(sourceCheck.dockerHubInfo,
                                         sourceCheck.githubInfo, updateInfo)]
    /\ pc' = "bothChecked"
    /\ UNCHANGED <<currentVersion, exceptSource>>

NextSource == CheckBothSources

SpecSource == InitSource /\ [][NextSource]_vars

(***************************************************************************)
(* Claims about checkBothSources.                                          *)
(***************************************************************************)
\* C27: when both sources report, the recommended version compares at
\* least as great as either; the source is "both" when the two compare
\* equal, "dockerhub" when Docker Hub's compares greater, and "github" with
\* a warning when GitHub's compares greater; when one source reports, its
\* version is recommended; when none reports, there is no recommendation
\* and updateAvailable and updateType are not set.
C27_RecommendsTheGreater ==
    pc = "bothChecked" =>
        LET r == sourceCheck.results
            d == r.dockerHub
            g == r.github
            rec == r.recommendation
        IN  /\ d.present /\ g.present =>
                /\ rec.present
                /\ rec.version \in {d.latestVersion, g.latestVersion}
                /\ compareVersions(rec.version.s, d.latestVersion.s) >= 0
                /\ compareVersions(rec.version.s, g.latestVersion.s) >= 0
                /\ rec.source = "both" <=>
                       compareVersions(g.latestVersion.s,
                                       d.latestVersion.s) = 0
                /\ rec.source = "dockerhub" <=>
                       compareVersions(g.latestVersion.s,
                                       d.latestVersion.s) < 0
                /\ rec.source = "github" /\ rec.warning <=>
                       compareVersions(g.latestVersion.s,
                                       d.latestVersion.s) > 0
            /\ d.present /\ ~g.present =>
                rec.present /\ rec.version = d.latestVersion
            /\ ~d.present /\ g.present =>
                rec.present /\ rec.version = g.latestVersion
            /\ ~d.present /\ ~g.present =>
                /\ ~rec.present
                /\ r.updateAvailable = "unset"
                /\ r.updateType = "unset"

\* C27 witness: GitHub reports 10, Docker Hub reports 2, and the release of
\* GitHub is recommended with a warning.
C27_Witness ==
    /\ pc = "bothChecked"
    /\ sourceCheck.results.dockerHub.latestVersion = Str(<<"2">>)
    /\ sourceCheck.results.github.latestVersion = Str(<<"1", "0">>)
    /\ sourceCheck.results.recommendation.source = "github"
    /\ sourceCheck.results.recommendation.version = Str(<<"1", "0">>)
    /\ sourceCheck.results.recommendation.warning

(***************************************************************************)
(* determineUpdateType beside compareVersions on versions of exactly three *)
(* numeric tokens, zeros and a zero written with two digits included.      *)
(***************************************************************************)
TripleTokens == {<<"0">>, <<"0", "0">>, <<"1">>, <<"2">>, <<"1", "0">>}

Triples ==
    {a \o <<".">> \o b \o <<".">> \o c :
        a \in TripleTokens, b \in TripleTokens, c \in TripleTokens}

InitTriple ==
    /\ pc = "start"
    /\ IdleParse
    /\ v1 \in Triples
    /\ v2 \in Triples
    /\ v3 = <<>>
    /\ cmp = NoCmp
    /\ updateType = "none"
    /\ IdleDetect
    /\ IdleExtract
    /\ IdleLookup
    /\ IdleScan
    /\ IdleCopies
    /\ IdleSource
    /\ IdleRun

NextTriple == DetermineUpdateType

SpecTriple == InitTriple /\ [][NextTriple]_vars

\* Exactly three tokens, each of digits only.
ThreeNumeric(v) == Len(TokensOf(v)) = 3 /\ AllNumeric(v)

\* The 0-based positions at which the integers of two versions differ.
DifferingPositions(a, b) ==
    {k \in 0..2 : PositionInt(a, k) # PositionInt(b, k)}

\* The least of a set of positions.
FirstOf(positions) == CHOOSE k \in positions : \A j \in positions : k <= j

TypeOfPosition(k) ==
    IF k = 0 THEN "major" ELSE IF k = 1 THEN "minor" ELSE "patch"

\* C28: for a current version v1 and a candidate v2 of exactly three numeric
\* tokens each, if compareVersions orders v2 after v1 then
\* determineUpdateType(v1, v2) is not 'other' and names the first position
\* at which their integers differ.
C28_ThreeTokensNamed ==
    pc = "classified" /\ ThreeNumeric(v1) /\ ThreeNumeric(v2) /\ cmp.c21 > 0
        => /\ updateType # "other"
           /\ DifferingPositions(v1, v2) # {}
           /\ updateType = TypeOfPosition(FirstOf(DifferingPositions(v1, v2)))

(***************************************************************************)
(* The copies of the core functions in the advanced checker and in the     *)
(* GitHub checker, each written out from its own text.                     *)
(***************************************************************************)
\* Advanced checker: the loop of compareVersions.
RECURSIVE compareFromAdvanced(_, _, _, _)
compareFromAdvanced(parts1, parts2, i, maxLen) ==
    IF i >= maxLen THEN 0
    ELSE LET p1 == Or(At(parts1, i), Num(0))
             p2 == Or(At(parts2, i), Num(0))
             next == compareFromAdvanced(parts1, parts2, i + 1, maxLen)
         IN  IF IsNumber(p1) /\ IsNumber(p2)
             THEN IF p1.n > p2.n THEN 1
                  ELSE IF p1.n < p2.n THEN -1
                  ELSE next
             ELSE LET str1 == ToStr(p1)
                      str2 == ToStr(p2)
                  IN  IF StrLess(str2, str1) THEN 1
                      ELSE IF StrLess(str1, str2) THEN -1
                      ELSE next

\* Advanced checker: compareVersions(v1, v2).
compareVersionsAdvanced(a, b) ==
    IF a = b THEN 0
    ELSE LET withoutV(v) == IF v # <<>> /\ Head(v) = "v" THEN Tail(v) ELSE v
             parts(v) ==
                 LET pieces == Split(v, {".", "-"})
                 IN  [i \in 1..Len(pieces) |->
                         Or(parseInt(pieces[i]), Str(pieces[i]))]
             parts1 == parts(withoutV(a))
             parts2 == parts(withoutV(b))
             maxLen == IF Len(parts1) > Len(parts2) THEN Len(parts1)
                       ELSE Len(parts2)
         IN  compareFromAdvanced(parts1, parts2, 0, maxLen)

\* GitHub checker: the loop of compareVersions.
RECURSIVE compareFromGitHub(_, _, _, _)
compareFromGitHub(parts1, parts2, i, maxLen) ==
    IF i >= maxLen THEN 0
    ELSE LET p1 == Or(At(parts1, i), Num(0))
             p2 == Or(At(parts2, i), Num(0))
             next == compareFromGitHub(parts1, parts2, i + 1, maxLen)
         IN  IF IsNumber(p1) /\ IsNumber(p2)
             THEN IF p1.n > p2.n THEN 1
                  ELSE IF p1.n < p2.n THEN -1
                  ELSE next
             ELSE LET str1 == ToStr(p1)
                      str2 == ToStr(p2)
                  IN  IF StrLess(str2, str1) THEN 1
                      ELSE IF StrLess(str1, str2) THEN -1
                      ELSE next

\* A plausible slip: the copy does not remove the leading "v".
compareVersionsGitHubKeepsV(a, b) ==
    IF a = b THEN 0
    ELSE LET parts(v) ==
                 LET pieces == Split(v, {".", "-"})
                 IN  [i \in 1..Len(pieces) |->
                         Or(parseInt(pieces[i]), Str(pieces[i]))]
             parts1 == parts(a)
             parts2 == parts(b)
             maxLen == IF Len(parts1) > Len(parts2) THEN Len(parts1)
                       ELSE Len(parts2)
         IN  compareFromGitHub(parts1, parts2, 0, maxLen)

\* GitHub checker: compareVersions(v1, v2).
compareVersionsGitHub(a, b) ==
    IF a = b THEN 0
    ELSE LET withoutV(v) == IF v # <<>> /\ Head(v) = "v" THEN Tail(v) ELSE v
             parts(v) ==
                 LET pieces == Split(v, {".", "-"})
                 IN  [i \in 1..Len(pieces) |->
                         Or(parseInt(pieces[i]), Str(pieces[i]))]
             parts1 == parts(withoutV(a))
             parts2 == parts(withoutV(b))
             maxLen == IF Len(parts1) > Len(parts2) THEN Len(parts1)
                       ELSE Len(parts2)
         IN  compareFromGitHub(parts1, parts2, 0, maxLen)

\* Advanced checker: determineUpdateType(current, latest).
determineUpdateTypeAdvanced(current, latest) ==
    LET withoutV(v) == IF v # <<>> /\ Head(v) = "v" THEN Tail(v) ELSE v
        parts(v) ==
            LET pieces == Split(withoutV(v), {".", "-"})
            IN  [i \in 1..Len(pieces) |-> Or(parseInt(pieces[i]), Num(0))]
        currentParts == parts(current)
        latestParts == parts(latest)
        greater(x, y) == x.t = "number" /\ y.t = "number" /\ x.n > y.n
    IN  IF greater(At(latestParts, 0), At(currentParts, 0)) THEN "major"
        ELSE IF greater(At(latestParts, 1), At(currentParts, 1)) THEN "minor"
        ELSE IF greater(At(latestParts, 2), At(currentParts, 2)) THEN "patch"
        ELSE "other"

\* Advanced checker: parseDockerImage(imageRef).
parseDockerImageAdvanced(ref) ==
    IF ref = <<>> THEN NullRef
    ELSE IF Includes(ref, <<"$", "$", "c", "a", "p", "_">>) THEN NullRef
    ELSE LET parts == Split(ref, {":"})
         IN  IF Len(parts) # 2 THEN NullRef
             ELSE LET imageName == parts[1]
                      version == parts[2]
                      imageParts == Split(imageName, {"/"})
                      registry == IF Len(imageParts) >= 3 THEN imageParts[1]
                                  ELSE <<"d", "o", "c", "k", "e", "r", ".", "i", "o">>
                      namespace == IF Len(imageParts) = 1
                                   THEN <<"l", "i", "b", "r", "a", "r", "y">>
                                   ELSE IF Len(imageParts) = 2
                                   THEN imageParts[1]
                                   ELSE imageParts[2]
                      repository == IF Len(imageParts) = 1 THEN imageParts[1]
                                    ELSE IF Len(imageParts) = 2
                                    THEN imageParts[2]
                                    ELSE Join(Drop(imageParts, 3), "/")
                  IN  [isNull |-> FALSE, full |-> ref,
                       registry |-> registry, namespace |-> namespace,
                       repository |-> repository,
                       fullName |-> namespace \o <<"/">> \o repository,
                       currentVersion |-> version,
                       isOfficial |->
                           namespace = <<"l", "i", "b", "r", "a", "r", "y">>]

\* Advanced checker: detectUpdate(currentVersion, latestVersion).  Its
\* compareVersions returns 0 on identical arguments and otherwise calls
\* .replace on both, which throws on a value that is not a string.
detectUpdateAdvanced(current, latest) ==
    LET nullVerdict ==
            [outcome |-> "null", hasUpdate |-> FALSE,
             currentVersion |-> Undefined, latestVersion |-> Undefined,
             updateType |-> "undefined"]
        noUpdate ==
            [outcome |-> "verdict", hasUpdate |-> FALSE,
             currentVersion |-> current, latestVersion |-> latest,
             updateType |-> "undefined"]
    IN  IF Falsy(latest) THEN nullVerdict
        ELSE IF latest.t # "NaN" /\ latest = current THEN noUpdate
        ELSE IF latest.t # "string" \/ current.t # "string" THEN nullVerdict
        ELSE IF compareVersionsAdvanced(latest.s, current.s) > 0
        THEN [outcome |-> "verdict", hasUpdate |-> TRUE,
              currentVersion |-> current, latestVersion |-> latest,
              updateType |->
                  determineUpdateTypeAdvanced(current.s, latest.s)]
        ELSE noUpdate

\* Tokens of the versions compared by the three copies: empty, zero,
\* numbers, a word, and a token with a leading v and a dash.
CopyTokens ==
    {<<>>, <<"0">>, <<"2">>, <<"1", "0">>, <<"a">>, <<"v", "1", "-", "0">>}

InitCopies ==
    /\ pc = "start"
    /\ IdleParse
    /\ IdleCompare
    /\ IdleDetect
    /\ IdleExtract
    /\ IdleLookup
    /\ IdleScan
    /\ IdleSource
    /\ IdleRun
    /\ copies = NoCopies

\* compareVersions of the three scripts on one pair of versions.
CompareCopies ==
    /\ pc = "start"
    /\ \E a, b \in VersionsOf(CopyTokens, MaxTokens) :
           /\ v1' = a
           /\ v2' = b
           /\ copies' = [fn |-> "compareVersions",
                         script |-> compareVersions(a, b),
                         advanced |-> compareVersionsAdvanced(a, b),
                         github |-> compareVersionsGitHub(a, b)]
    /\ pc' = "copied"
    /\ UNCHANGED <<v3, cmp, updateType, parseVars, detectVars, exceptCopy>>

\* determineUpdateType of the two scripts on one pair of versions.
ClassifyCopies ==
    /\ pc = "start"
    /\ \E current, latest \in VersionsOf(TypeTokens, MaxTypeTokens) :
           /\ v1' = current
           /\ v2' = latest
           /\ copies' = [fn |-> "determineUpdateType",
                         script |-> determineUpdateType(current, latest),
                         advanced |->
                             determineUpdateTypeAdvanced(current, latest),
                         github |-> 0]
    /\ pc' = "copied"
    /\ UNCHANGED <<v3, cmp, updateType, parseVars, detectVars, exceptCopy>>

\* parseDockerImage of the two scripts on one reference.
ParseCopies ==
    /\ pc = "start"
    /\ \E ref \in RefInputs :
           /\ imageRef' = ref
           /\ copies' = [fn |-> "parseDockerImage",
                         script |-> parseDockerImage(ref),
                         advanced |-> parseDockerImageAdvanced(ref),
                         github |-> 0]
    /\ pc' = "copied"
    /\ UNCHANGED <<parsed, compareVars, detectVars, exceptCopy>>

\* detectUpdate of the two scripts on one pair of values.
DetectCopies ==
    /\ pc = "start"
    /\ \E current, latest \in DetectValues :
           /\ currentVersion' = current
           /\ latestVersion' = latest
           /\ copies' = [fn |-> "detectUpdate",
                         script |-> detectUpdate(current, latest),
                         advanced |-> detectUpdateAdvanced(current, latest),
                         github |-> 0]
    /\ pc' = "copied"
    /\ UNCHANGED <<verdict, parseVars, compareVars, exceptCopy>>

NextCopies ==
    \/ CompareCopies
    \/ ClassifyCopies
    \/ ParseCopies
    \/ DetectCopies

SpecCopies == InitCopies /\ [][NextCopies]_vars

(***************************************************************************)
(* Claims about the copies.                                                *)
(***************************************************************************)
\* C29: on the same arguments the copy of the advanced checker returns
\* what the copy of check_updates.js returns, for compareVersions,
\* parseDockerImage, determineUpdateType and detectUpdate, and the
\* compareVersions of the GitHub checker returns the same value too.
C29_CopiesAgree ==
    pc = "copied" =>
        /\ copies.advanced = copies.script
        /\ copies.fn = "compareVersions" => copies.github = copies.script

\* C29 witness: the three copies of compareVersions agree on "v1-0.a"
\* against "2.10", a pair with a leading v, a dash and a non-numeric token,
\* and do not call the two equal.
C29_Witness ==
    /\ pc = "copied"
    /\ copies.fn = "compareVersions"
    /\ v1 = <<"v", "1", "-", "0", ".", "a">>
    /\ v2 = <<"2", ".", "1", "0">>
    /\ copies.script = copies.github
    /\ copies.script # 0

====
